---- MODULE Spec2Model ----
\* Changelog extraction and normalisation engine (src/src/utils/changelog.ts):
\* the Version Comparator, the Consolidator, the Link Extractor, the Heading
\* Classifier, block cleaning and the Generic Segmenter, as state machines
\* over JavaScript strings.  A JavaScript string is a TLA+ string; TLC
\* evaluates Len, SubSeq, Head, Tail and \o on strings.
EXTENDS Integers, Sequences, FiniteSets, TLC

----------------------------------------------------------------------------
\* Bounds of the model.

\* longest document (in lines) given to extractChangelogBlocks
MaxLines == 4
\* largest label -> block map given to consolidateVersions
MaxKeys == 3

----------------------------------------------------------------------------
\* JavaScript string primitives.

\* s.charAt(i - 1) : "" outside the string
Ch(s, i) == IF i >= 1 /\ i <= Len(s) THEN SubSeq(s, i, i) ELSE ""

\* s.slice(i - 1, j) : the characters i..j, the range cut to the string
slice(s, i, j) ==
  LET lo == IF i < 1 THEN 1 ELSE i
      hi == IF j > Len(s) THEN Len(s) ELSE j
  IN IF lo > hi THEN "" ELSE SubSeq(s, lo, hi)

\* c is one of the characters of set
InStr(c, set) == \E k \in 1..Len(set) : Ch(set, k) = c

\* first position of character c in set at or after k, 0 when absent
RECURSIVE PosFrom(_, _, _)
PosFrom(c, set, k) == IF k > Len(set) THEN 0 ELSE IF Ch(set, k) = c THEN k ELSE PosFrom(c, set, k + 1)

\* first position of character c in set, 0 when absent
PosIn(c, set) == PosFrom(c, set, 1)

Digits == "0123456789"
LowerAlpha == "abcdefghijklmnopqrstuvwxyz"
UpperAlpha == "ABCDEFGHIJKLMNOPQRSTUVWXYZ"

\* regex \d
IsDigit(c) == c \in {"0", "1", "2", "3", "4", "5", "6", "7", "8", "9"}

\* regex \s (the white space the documents use)
IsSpace(c) == c \in {" ", "\t", "\n", "\r"}

\* regex ^\d+$
AllDigits(s) == Len(s) > 0 /\ \A k \in 1..Len(s) : IsDigit(Ch(s, k))

\* String.prototype.toLowerCase, one character
UpperChars == {Ch(UpperAlpha, k) : k \in 1..Len(UpperAlpha)}
LowerCh(c) == IF c \in UpperChars THEN Ch(LowerAlpha, PosIn(c, UpperAlpha)) ELSE c

RECURSIVE toLowerCase(_)
toLowerCase(s) ==
  IF s = "" THEN ""
  ELSE IF Len(s) = 1 THEN LowerCh(s)
  ELSE toLowerCase(slice(s, 1, Len(s) \div 2)) \o toLowerCase(slice(s, Len(s) \div 2 + 1, Len(s)))

RECURSIVE TrimStart(_)
TrimStart(s) == IF s # "" /\ IsSpace(Head(s)) THEN TrimStart(Tail(s)) ELSE s

RECURSIVE TrimEnd(_)
TrimEnd(s) == IF s # "" /\ IsSpace(Ch(s, Len(s))) THEN TrimEnd(slice(s, 1, Len(s) - 1)) ELSE s

\* String.prototype.trim
trim(s) == TrimEnd(TrimStart(s))

\* s.startsWith(p)
startsWith(s, p) == Len(s) >= Len(p) /\ slice(s, 1, Len(p)) = p

\* s.endsWith(p)
endsWith(s, p) == Len(s) >= Len(p) /\ slice(s, Len(s) - Len(p) + 1, Len(s)) = p

\* p occurs in s at position i
At(s, i, p) == i >= 1 /\ i + Len(p) - 1 <= Len(s) /\ slice(s, i, i + Len(p) - 1) = p

\* the least of a set of positions, none when the set is empty
FirstOr(hits, none) == IF hits = {} THEN none ELSE CHOOSE k \in hits : \A j \in hits : k <= j

\* s.indexOf(p, from - 1) + 1 : first occurrence at or after from, 0 when none
IndexFrom(s, p, from) == FirstOr({k \in from..(Len(s) - Len(p) + 1) : At(s, k, p)}, 0)

\* s.includes(p)
includes(s, p) == p = "" \/ \E i \in 1..Len(s) : At(s, i, p)

\* parseInt(s, 10) of a digit string
RECURSIVE parseInt(_)
parseInt(s) == IF s = "" THEN 0 ELSE parseInt(slice(s, 1, Len(s) - 1)) * 10 + (PosIn(Ch(s, Len(s)), Digits) - 1)

\* length of the longest prefix of s, from position i, made of characters of set
RECURSIVE RunLen(_, _, _)
RunLen(s, i, set) == IF i <= Len(s) /\ InStr(Ch(s, i), set) THEN 1 + RunLen(s, i + 1, set) ELSE 0

\* length of the longest run in s, from position i, of characters not in set
RunLenNot(s, i, set) ==
  FirstOr({k \in i..Len(s) : InStr(Ch(s, k), set)}, IF i > Len(s) THEN i ELSE Len(s) + 1) - i

\* s.split(/[seps]/) : the pieces between single separator characters
RECURSIVE splitFrom(_, _, _)
splitFrom(s, seps, i) ==
  LET piece(e) == IF e > Len(s) THEN <<slice(s, i, Len(s))>>
                  ELSE <<slice(s, i, e - 1)>> \o splitFrom(s, seps, e + 1)
  IN piece(i + RunLenNot(s, i, seps))

split(s, seps) == splitFrom(s, seps, 1)

\* s.split(/\s+/)[0]
RECURSIVE FirstToken(_)
FirstToken(s) == IF s = "" \/ IsSpace(Head(s)) THEN "" ELSE Head(s) \o FirstToken(Tail(s))

\* Math.sign
Sign(n) == IF n > 0 THEN 1 ELSE IF n < 0 THEN -1 ELSE 0

----------------------------------------------------------------------------
\* String.prototype.localeCompare under the root collation: a primary
\* comparison of the characters without their case, then lower case before
\* upper case at the first difference of case.

CollationOrder == " _-,;:!?.'()[]{}@*/&#%^+<=>|~$0123456789abcdefghijklmnopqrstuvwxyz"

Rank(c) == PosIn(LowerCh(c), CollationOrder)

RECURSIVE PrimaryCompare(_, _)
PrimaryCompare(a, b) ==
  IF a = "" /\ b = "" THEN 0
  ELSE IF a = "" THEN -1
  ELSE IF b = "" THEN 1
  ELSE IF Rank(Head(a)) # Rank(Head(b)) THEN Sign(Rank(Head(a)) - Rank(Head(b)))
  ELSE PrimaryCompare(Tail(a), Tail(b))

RECURSIVE CaseCompare(_, _)
CaseCompare(a, b) ==
  IF a = "" \/ b = "" THEN 0
  ELSE IF Head(a) = Head(b) THEN CaseCompare(Tail(a), Tail(b))
  ELSE IF InStr(Head(a), LowerAlpha) THEN -1 ELSE 1

localeCompare(a, b) == IF PrimaryCompare(a, b) # 0 THEN PrimaryCompare(a, b) ELSE CaseCompare(a, b)

----------------------------------------------------------------------------
\* Version Comparator: compareVersions and compareVersionParts.

\* a.match(/^(\d+\.\d+)\.x$/) : the wildcard-version shape N.N.x
IsCursorVersion(a) ==
  LET shaped(p) == Len(p) = 3 /\ AllDigits(p[1]) /\ AllDigits(p[2]) /\ p[3] = "x"
  IN shaped(split(a, "."))

\* cursorVersion[1].split('.').map(n => parseInt(n, 10))
majorMinor(a) == LET p == split(a, ".") IN <<parseInt(p[1]), parseInt(p[2])>>

\* /^\d{4}[-./]\d{1,2}[-./]\d{1,2}$/.test(s)
IsDateShape(s) ==
  LET shaped(p) == /\ Len(p) = 3 /\ AllDigits(p[1]) /\ Len(p[1]) = 4
                   /\ AllDigits(p[2]) /\ Len(p[2]) <= 2
                   /\ AllDigits(p[3]) /\ Len(p[3]) <= 2
  IN shaped(split(s, "-./"))

\* /^_?\d{4}[-./]\d{1,2}[-./]\d{1,2}_?$/.test(s)
IsUnderscoredDateShape(s) ==
  LET s1 == IF startsWith(s, "_") THEN Tail(s) ELSE s
      s2 == IF endsWith(s1, "_") THEN slice(s1, 1, Len(s1) - 1) ELSE s1
  IN IsDateShape(s2)

\* /^[v]?\d+(\.\d+)+/.test(s) : a prefix test
HasVersionPrefix(s) ==
  LET t == IF startsWith(s, "v") THEN Tail(s) ELSE s
      n == RunLen(t, 1, Digits)
  IN n >= 1 /\ Ch(t, n + 1) = "." /\ IsDigit(Ch(t, n + 2))

looksLikeVersion(a) == HasVersionPrefix(a) \/ IsDateShape(a)

isDate(a) == IsDateShape(a) \/ IsUnderscoredDateShape(a)

\* a.replace(/^[vV]/, '').trim().split(/\s+/)[0]
cleanVersion(a) ==
  LET t == IF a # "" /\ Head(a) \in {"v", "V"} THEN Tail(a) ELSE a
  IN FirstToken(trim(t))

\* clean.split(/[-./]/).map(part => parseInt(part, 10)).filter(num => !isNaN(num))
\* of a date-shaped string: three digit groups
dateParts(clean) == LET p == split(clean, "-./") IN [k \in 1..Len(p) |-> parseInt(p[k])]

\* the loop over the date parts, then the difference of the lengths
RECURSIVE compareDateParts(_, _, _)
compareDateParts(dA, dB, k) ==
  IF k > Len(dA) \/ k > Len(dB) THEN Len(dB) - Len(dA)
  ELSE IF dA[k] # dB[k] THEN dB[k] - dA[k]
  ELSE compareDateParts(dA, dB, k + 1)

\* preReleaseOrder.findIndex(term => suffix.includes(term)), -1 when none
preReleaseOrder == <<"alpha", "beta", "rc", "preview", "pre">>

preReleaseIndex(suffix) ==
  IF \E k \in 1..Len(preReleaseOrder) : includes(suffix, preReleaseOrder[k])
  THEN (CHOOSE k \in 1..Len(preReleaseOrder) :
          /\ includes(suffix, preReleaseOrder[k])
          /\ \A j \in 1..(k - 1) : ~includes(suffix, preReleaseOrder[j])) - 1
  ELSE -1

\* the comparison of the main components: parts[0].split('.') is the one
\* element parts[0], because parts was split at the dots already; an element
\* is a number when it matches /^\d+$/ and a string otherwise.  The result is
\* 0 when the loop ends without returning.
compareMainParts(p0A, p0B) ==
  IF AllDigits(p0A) /\ AllDigits(p0B)
  THEN (IF parseInt(p0A) # parseInt(p0B) THEN parseInt(p0B) - parseInt(p0A) ELSE 0)
  ELSE IF AllDigits(p0A) THEN -1
  ELSE IF AllDigits(p0B) THEN 1
  ELSE IF toLowerCase(p0A) # toLowerCase(p0B) THEN localeCompare(toLowerCase(p0B), toLowerCase(p0A))
  ELSE 0

\* "If main parts are equal, check suffixes": the second piece of each label
compareSuffixes(partsA, partsB) ==
  IF Len(partsA) > 1 \/ Len(partsB) > 1
  THEN LET ranked(suffixA, suffixB, preReleaseA, preReleaseB) ==
             IF preReleaseA # -1 /\ preReleaseB # -1 /\ preReleaseA # preReleaseB
             THEN preReleaseA - preReleaseB
             ELSE IF preReleaseA # -1 /\ preReleaseB = -1 THEN -1
             ELSE IF preReleaseA = -1 /\ preReleaseB # -1 THEN 1
             ELSE IF suffixA # "" /\ suffixB # "" THEN localeCompare(suffixB, suffixA)
             ELSE IF suffixA = "" /\ suffixB # "" THEN 1
             ELSE IF suffixA # "" /\ suffixB = "" THEN -1
             ELSE 0
           suffixes(suffixA, suffixB) ==
             ranked(suffixA, suffixB, preReleaseIndex(suffixA), preReleaseIndex(suffixB))
       IN suffixes(IF Len(partsA) > 1 THEN toLowerCase(partsA[2]) ELSE "",
                   IF Len(partsB) > 1 THEN toLowerCase(partsB[2]) ELSE "")
  ELSE 0

compareVersionParts(a, b) ==
  LET mainFirst(main, partsA, partsB) ==
        IF main # 0 THEN main ELSE compareSuffixes(partsA, partsB)
      parts(partsA, partsB) ==
        mainFirst(compareMainParts(partsA[1], partsB[1]), partsA, partsB)
      clean(cleanA, cleanB) ==
        IF IsDateShape(cleanA) /\ IsDateShape(cleanB)
        THEN compareDateParts(dateParts(cleanA), dateParts(cleanB), 1)
        ELSE parts(split(cleanA, "-_."), split(cleanB, "-_."))
  IN clean(cleanVersion(a), cleanVersion(b))

\* both labels have the wildcard shape: major, then minor
compareCursorVersions(a, b) ==
  IF majorMinor(a)[1] # majorMinor(b)[1]
  THEN majorMinor(b)[1] - majorMinor(a)[1]
  ELSE majorMinor(b)[2] - majorMinor(a)[2]

\* a wildcardRule that gives the same answer whichever side the wildcard is on
wildcardRuleOneSided(a, b) ==
  IF IsCursorVersion(a) /\ IsCursorVersion(b) THEN compareCursorVersions(a, b) ELSE 1

\* a wildcardRule that ranks the wildcard label after the other label
wildcardRuleInverted(a, b) ==
  IF IsCursorVersion(a) /\ ~IsCursorVersion(b) THEN -1
  ELSE IF ~IsCursorVersion(a) /\ IsCursorVersion(b) THEN 1
  ELSE compareCursorVersions(a, b)

\* "Special case for Cursor's version format": at least one label is N.N.x
wildcardRule(a, b) ==
  IF IsCursorVersion(a) /\ ~IsCursorVersion(b) THEN 1
  ELSE IF ~IsCursorVersion(a) /\ IsCursorVersion(b) THEN -1
  ELSE compareCursorVersions(a, b)

\* a dateRule that ranks the date after the other label
dateRuleInverted(a, b) == IF isDate(a) THEN -1 ELSE 1

\* "If one is a date and one isn't, prioritize the date": exactly one is a date
dateRule(a, b) == IF isDate(a) THEN 1 ELSE -1

\* "If one is a version number and the other is a description": exactly one
\* looks like a version
versionRule(a, b) == IF looksLikeVersion(a) THEN 1 ELSE -1

compareVersions(a, b) ==
  LET versions(looksLikeVersionA, looksLikeVersionB) ==
        IF looksLikeVersionA # looksLikeVersionB THEN versionRule(a, b)
        ELSE IF ~looksLikeVersionA /\ ~looksLikeVersionB THEN localeCompare(b, a)
        ELSE compareVersionParts(a, b)
      dates(isDateA, isDateB) ==
        IF isDateA # isDateB THEN dateRule(a, b)
        ELSE versions(looksLikeVersion(a), looksLikeVersion(b))
  IN IF IsCursorVersion(a) \/ IsCursorVersion(b) THEN wildcardRule(a, b)
     ELSE dates(isDate(a), isDate(b))

----------------------------------------------------------------------------
\* Heading Classifier: extractValidVersionOrTitle.
\*
\* The headings and documents of this model hold no backslash (one content
\* block given to the Link Extractor does, and matches "Priority 3").  In the
\* source several regex literals are written with a doubled backslash:
\* /(?:^|\\s)/ is "the start
\* of the text, or a backslash followed by the letter s", not "or white
\* space".  On a text without a backslash such an alternative never matches,
\* so (?:^|\\s)(BODY)(?:$|\\s) matches exactly when BODY matches the whole
\* heading text.

\* the value returned for "no label" (null in the source, tested only for truth)
NoLabel == ""

\* s from position i on
From(s, i) == slice(s, i, Len(s))

\* the number of groups \.\d+ (at most max of them) s holds from position i on
RECURSIVE DotGroups(_, _, _)
DotGroups(s, i, max) ==
  IF max > 0 /\ Ch(s, i) = "." /\ RunLen(s, i + 1, Digits) > 0
  THEN <<1 + DotGroups(s, i + 1 + RunLen(s, i + 1, Digits), max - 1)[1],
         DotGroups(s, i + 1 + RunLen(s, i + 1, Digits), max - 1)[2]>>
  ELSE <<0, i>>

SuffixChars == "abcdefghijklmnopqrstuvwxyzABCDEFGHIJKLMNOPQRSTUVWXYZ0123456789.-"

\* ^v?\d+\.\d+(?:\.\d+){0,2}(?:[-_][a-zA-Z0-9.-]+)?$ with the i flag
IsSemanticVersion(s) ==
  LET i0 == IF Ch(s, 1) \in {"v", "V"} THEN 2 ELSE 1
      n1 == RunLen(s, i0, Digits)
      g == DotGroups(s, i0 + n1, 3)
      rest == From(s, g[2])
  IN /\ n1 >= 1
     /\ g[1] >= 1
     /\ \/ rest = ""
        \/ /\ Len(rest) >= 2
           /\ Ch(rest, 1) \in {"-", "_"}
           /\ RunLen(rest, 2, SuffixChars) = Len(rest) - 1

\* ^\d{4}\.\d{1,2}(?:\.\d{1,2})?$
IsShortDate(s) ==
  LET p == split(s, ".")
  IN /\ Len(p) \in {2, 3}
     /\ AllDigits(p[1]) /\ Len(p[1]) = 4
     /\ \A k \in 2..Len(p) : AllDigits(p[k]) /\ Len(p[k]) <= 2

\* ^\d+(\.\d+)*$
IsDottedNumber(s) == LET p == split(s, ".") IN \A k \in 1..Len(p) : AllDigits(p[k])

\* ^(?:Build|Patch)\s+(\d+(\.\d+)*)$ with the i flag: the number, or ""
BuildNumber(s) ==
  LET w == toLowerCase(slice(s, 1, 5))
      rest == From(s, 6)
      num == TrimStart(rest)
  IN IF w \in {"build", "patch"} /\ Len(num) < Len(rest) /\ IsDottedNumber(num) THEN num ELSE ""

\* ^SP(\d+)$ with the i flag: the digits, or ""
ServicePack(s) ==
  IF toLowerCase(slice(s, 1, 2)) = "sp" /\ AllDigits(From(s, 3)) THEN From(s, 3) ELSE ""

\* ^R(\d{4}[a-z])$ with the i flag: the capture, or ""
MatlabRelease(s) ==
  IF /\ Len(s) = 6
     /\ Ch(s, 1) \in {"R", "r"}
     /\ AllDigits(slice(s, 2, 5))
     /\ InStr(LowerCh(Ch(s, 6)), LowerAlpha)
  THEN From(s, 2) ELSE ""

\* ^(\d+\.\d+\.x)$ with the i flag
IsWildcardHeading(s) ==
  LET p == split(s, ".")
  IN Len(p) = 3 /\ AllDigits(p[1]) /\ AllDigits(p[2]) /\ p[3] \in {"x", "X"}

\* match[1] of each of the seven versionPatterns, "" when the pattern fails
versionPatternCaptures(t) ==
  << IF IsSemanticVersion(t) THEN t ELSE "",
     IF IsDateShape(t) THEN t ELSE "",
     IF IsShortDate(t) THEN t ELSE "",
     BuildNumber(t),
     ServicePack(t),
     MatlabRelease(t),
     IF IsWildcardHeading(t) THEN t ELSE "" >>

\* the number of pieces of trimmedText.split(/\s+/), trimmedText being trimmed
RECURSIVE WordCount(_)
WordCount(t) ==
  IF t = "" THEN 0
  ELSE IF FirstToken(t) = t THEN 1
  ELSE 1 + WordCount(TrimStart(From(t, Len(FirstToken(t)) + 1)))

\* "avoid matching year alone if it's part of a longer title"
IsYearInTitle(m, t) == Len(m) = 4 /\ AllDigits(m) /\ WordCount(t) > 2

\* the loop over versionPatterns: the first capture that is not a year in a title
RECURSIVE firstVersionCapture(_, _, _)
firstVersionCapture(caps, t, k) ==
  IF k > Len(caps) THEN ""
  ELSE IF caps[k] # "" /\ ~IsYearInTitle(caps[k], t) THEN caps[k]
  ELSE firstVersionCapture(caps, t, k + 1)

\* commonSectionHeaders, every alternative spelled out in lower case
SectionHeaderWords ==
  {"feature", "features", "bugfixe", "bugfixes", "bug fixe", "bug fixes",
   "fixd", "fixed", "enhancement", "enhancements", "improvement", "improvements",
   "change", "changes", "added", "removed", "deprecated", "security",
   "whats new", "what's new", "highlight", "highlights", "detail", "details",
   "summary", "overview", "unreleased", "upcoming", "current", "next", "pending",
   "contributors", "other"}

commonSectionHeaders(t) == toLowerCase(t) \in SectionHeaderWords

ReleaseWords == <<"release", "update", "version", "build", "patch", "edition",
                  "changelog", "announcement", "month", "year", "week", "day">>

\* /\d|release|update|...|day/i.test(t)
hasReleaseIndicator(t) ==
  \/ \E k \in 1..Len(t) : IsDigit(Ch(t, k))
  \/ \E w \in 1..Len(ReleaseWords) : includes(toLowerCase(t), ReleaseWords[w])

\* trimmedText.match(/^\[(.*?)\]\(.*?\)$/) : the title, "" when no match
linkedTitle(t) ==
  LET j == IndexFrom(t, "](", 2)
  IN IF Ch(t, 1) = "[" /\ j > 0 /\ Ch(t, Len(t)) = ")" /\ Len(t) >= j + 2
     THEN slice(t, 2, j - 1) ELSE ""

\* "2. Descriptive Titles"
descriptiveTitle(t) ==
  IF Len(t) >= 5 /\ Len(t) <= 150 /\ ~commonSectionHeaders(t)
  THEN IF hasReleaseIndicator(t) THEN t
       ELSE IF startsWith(t, "[") /\ endsWith(t, "]")
                 /\ Len(slice(t, 2, Len(t) - 1)) >= 5
                 /\ ~commonSectionHeaders(slice(t, 2, Len(t) - 1))
            THEN slice(t, 2, Len(t) - 1)
       ELSE NoLabel
  ELSE NoLabel

extractValidVersionOrTitle(headingText) ==
  LET t == trim(headingText)
  IN IF t = "" THEN NoLabel
     ELSE IF Len(linkedTitle(t)) > 5 THEN linkedTitle(t)
     ELSE IF firstVersionCapture(versionPatternCaptures(t), t, 1) # ""
          THEN firstVersionCapture(versionPatternCaptures(t), t, 1)
     ELSE IF descriptiveTitle(t) # NoLabel THEN descriptiveTitle(t)
     ELSE IF toLowerCase(t) = "unreleased" THEN "Unreleased"
     ELSE NoLabel

----------------------------------------------------------------------------
\* JavaScript values that are a string or undefined.

Undefined == [kind |-> "undefined", value |-> ""]
Null == [kind |-> "null", value |-> ""]
Str(u) == [kind |-> "string", value |-> u]

\* the value counts as true in a condition
Truthy(v) == v.kind = "string" /\ v.value # ""

\* x || y
OrElse(x, y) == IF Truthy(x) THEN x ELSE y

----------------------------------------------------------------------------
\* Text Normalizer, block cleaning: cleanDescriptionBlock.
\*
\* On a text without a backslash the replacements whose regex literal is
\* written with doubled backslashes (the leading date line, the category
\* lines, the leading generic header, /\\r\\n?/, /\\n{3,}/, the empty bullet,
\* the "[See more](...)" family, /\\n\\s+\\n/ and /\\[iframe\\]/) find no
\* match, and split('\\n') returns the whole text as its only line: the map
\* over the lines returns that line as it is (it is trimmed already), fenced
\* or not.  What is left is the trim, the separator lines, the three fixed
\* phrases and the final trims.

IsLineTerminator(c) == c \in {"\n", "\r"}

\* ^ of a regex with the m flag
IsLineStart(s, i) == i = 1 \/ IsLineTerminator(Ch(s, i - 1))

\* $ of a regex with the m flag
IsLineEnd(s, i) == i = Len(s) + 1 \/ IsLineTerminator(Ch(s, i))

Whitespace == " \t\n\r"
SeparatorChars == "-*=_"

\* the largest q in lo..hi with $ at q, 0 when there is none
RECURSIVE LastLineEnd(_, _, _)
LastLineEnd(s, lo, hi) ==
  IF hi < lo THEN 0 ELSE IF IsLineEnd(s, hi) THEN hi ELSE LastLineEnd(s, lo, hi - 1)

\* /^\s*[-*=_]{3,}\s*$/m matched at position i: the position after the
\* match, 0 when there is no match at i
separatorMatchEnd(s, i) ==
  IF ~IsLineStart(s, i) THEN 0
  ELSE LET a == i + RunLen(s, i, Whitespace)
           r == RunLen(s, a, SeparatorChars)
           e == a + r
       IN IF r < 3 THEN 0 ELSE LastLineEnd(s, e, e + RunLen(s, e, Whitespace))

\* cleaned.replace(/^\s*[-*=_]{3,}\s*$/gm, '') from position i on
RECURSIVE removeSeparatorLines(_, _)
removeSeparatorLines(s, i) ==
  IF i > Len(s) THEN ""
  ELSE IF separatorMatchEnd(s, i) > 0 THEN removeSeparatorLines(s, separatorMatchEnd(s, i))
  ELSE LET n == RunLenNot(s, i, "\n\r")
       IN slice(s, i, i + n) \o removeSeparatorLines(s, i + n + 1)

\* s.replace(/phrase/gi, '') from position i on; low is s in lower case
RECURSIVE removePhrase(_, _, _, _)
removePhrase(s, low, phrase, i) ==
  LET k == IndexFrom(low, phrase, i)
  IN IF k = 0 THEN slice(s, i, Len(s))
     ELSE slice(s, i, k - 1) \o removePhrase(s, low, phrase, k + Len(phrase))

removePhraseI(s, phrase) == removePhrase(s, toLowerCase(s), toLowerCase(phrase), 1)

cleanDescriptionBlock(desc) ==
  IF desc = "" THEN ""
  ELSE LET c1 == trim(desc)
           c2 == removeSeparatorLines(c1, 1)
           c3 == removePhraseI(c2, "Thanks to all contributors!")
           c4 == removePhraseI(c3, "What's Changed")
           c5 == removePhraseI(c4, "## Contributors")
       IN trim(trim(c5))

----------------------------------------------------------------------------
\* Link Extractor: extractDetailLink.

NoMatch == [found |-> FALSE, text |-> "", url |-> "", next |-> 0]

\* /\[([^\]]+)\]\(([^)]+)\)/ matched with its "[" at position p
mdLinkAt(s, p) ==
  LET j == IndexFrom(s, "]", p + 1)
      k == IndexFrom(s, ")", j + 2)
  IN IF Ch(s, p) = "[" /\ j > p + 1 /\ Ch(s, j + 1) = "(" /\ k > j + 2
     THEN [found |-> TRUE, text |-> slice(s, p + 1, j - 1), url |-> slice(s, j + 2, k - 1), next |-> k + 1]
     ELSE NoMatch

\* the leftmost match of /\[([^\]]+)\]\(([^)]+)\)/ at or after position from
RECURSIVE mdLinkFrom(_, _)
mdLinkFrom(s, from) ==
  LET tried(p, m) == IF p = 0 THEN NoMatch
                     ELSE IF m.found THEN m
                     ELSE mdLinkFrom(s, p + 1)
      at(p) == tried(p, mdLinkAt(s, p))
  IN at(IndexFrom(s, "[", from))

ImageExtensions == <<".png", ".jpg", ".jpeg", ".gif", ".svg", ".webp">>

\* url.match(/\.(?:png|jpg|jpeg|gif|svg|webp)$/i)
hasImageExtension(url) ==
  \E k \in 1..Len(ImageExtensions) : endsWith(toLowerCase(url), ImageExtensions[k])

\* "Priority 1: Link directly in the heading"
headingLink(headingLine) ==
  LET linkOf(m) == IF m.found /\ ~hasImageExtension(m.url) THEN Str(m.url) ELSE Undefined
  IN linkOf(mdLinkFrom(headingLine, 1))

WordChars == "abcdefghijklmnopqrstuvwxyzABCDEFGHIJKLMNOPQRSTUVWXYZ0123456789_"

\* regex \b between positions i - 1 and i
IsWordBoundary(s, i) == InStr(Ch(s, i - 1), WordChars) # InStr(Ch(s, i), WordChars)

\* release notes?|full changelog|details|compare view|view release|release page
ExplicitPhrases == <<"release notes", "release note", "full changelog", "details",
                     "compare view", "view release", "release page">>

\* \((https?:\/\/[^)]+)\) matched with its "(" at position t: the URL, "" when none
parenUrlAt(low, s, t) ==
  LET u == IF At(low, t, "(http://") THEN t + 8
           ELSE IF At(low, t, "(https://") THEN t + 9 ELSE 0
      k == IndexFrom(s, ")", u)
  IN IF u > 0 /\ k > u THEN slice(s, t + 1, k - 1) ELSE ""

\* .*?\((https?:\/\/[^)]+)\) from position e on: the first "(" of the same
\* line that opens such a URL
RECURSIVE lazyParenUrl(_, _, _)
lazyParenUrl(low, s, e) ==
  IF e > Len(s) THEN ""
  ELSE IF parenUrlAt(low, s, e) # "" THEN parenUrlAt(low, s, e)
  ELSE IF IsLineTerminator(Ch(s, e)) THEN ""
  ELSE lazyParenUrl(low, s, e + 1)

\* the first explicit pattern tried with the phrase starting at position p
RECURSIVE explicitPhraseAt(_, _, _, _)
explicitPhraseAt(low, s, p, k) ==
  IF k > Len(ExplicitPhrases) THEN ""
  ELSE LET e == p + Len(ExplicitPhrases[k])
       IN IF At(low, p, ExplicitPhrases[k]) /\ IsWordBoundary(s, e) /\ lazyParenUrl(low, s, e) # ""
          THEN lazyParenUrl(low, s, e)
          ELSE explicitPhraseAt(low, s, p, k + 1)

\* contentBlock.match(explicitLinkPatterns[0]) : match[1], "" when none
RECURSIVE explicitPhraseLink(_, _, _)
explicitPhraseLink(low, s, p) ==
  IF p > Len(s) THEN ""
  ELSE IF Ch(low, p) \in {"r", "f", "d", "c", "v"} /\ IsWordBoundary(s, p) /\ explicitPhraseAt(low, s, p, 1) # ""
       THEN explicitPhraseAt(low, s, p, 1)
  ELSE explicitPhraseLink(low, s, p + 1)

GitHubKinds == <<"releases", "compare", "commit", "tree", "tag">>

\* \((https?:\/\/github\.com\/[^\/]+\/[^\/]+\/(?:releases|compare|commit|tree|tag)[^)]+)\)
\* matched with its "(" at position t
gitHubUrlAt(low, s, t) ==
  LET u == IF At(low, t, "(http://github.com/") THEN t + 19
           ELSE IF At(low, t, "(https://github.com/") THEN t + 20 ELSE 0
      s1 == IndexFrom(s, "/", u)
      s2 == IndexFrom(s, "/", s1 + 1)
      w == IF \E n \in 1..Len(GitHubKinds) : At(low, s2 + 1, GitHubKinds[n])
           THEN Len(GitHubKinds[CHOOSE n \in 1..Len(GitHubKinds) : At(low, s2 + 1, GitHubKinds[n]) /\ \A m \in 1..(n - 1) : ~At(low, s2 + 1, GitHubKinds[m])])
           ELSE 0
      k == IndexFrom(s, ")", s2 + 1 + w)
  IN IF u > 0 /\ s1 > u /\ s2 > s1 + 1 /\ w > 0 /\ k > s2 + 1 + w
     THEN slice(s, t + 1, k - 1) ELSE ""

\* contentBlock.match(explicitLinkPatterns[1]) : match[1], "" when none
RECURSIVE gitHubLink(_, _, _)
gitHubLink(low, s, from) ==
  LET t == IndexFrom(s, "(", from)
  IN IF t = 0 THEN ""
     ELSE IF gitHubUrlAt(low, s, t) # "" THEN gitHubUrlAt(low, s, t)
     ELSE gitHubLink(low, s, t + 1)

\* "Priority 2: Explicit ... links": the two patterns in turn
explicitLink(contentBlock) ==
  LET linkOr(url, next) == IF url # "" THEN Str(url) ELSE next
      in(low) == linkOr(explicitPhraseLink(low, contentBlock, 1),
                        linkOr(gitHubLink(low, contentBlock, 1), Undefined))
  IN in(toLowerCase(contentBlock))

\* the characters of the class [(?:See|Read|Learn) more\\], in lower case
MoreClassChars == "(?:|) seradlnmo\\"

\* "Priority 3": /\\[(?:See|Read|Learn) more\\]\\(([^)]+)\\)/i is a backslash,
\* one character of a class, a backslash, and as its group 1 the longest
\* text without ")" that ends in a backslash.  It has no match in a text
\* without a backslash.
moreLink(contentBlock) ==
  LET ends(p) == {q \in (p + 4)..Len(contentBlock) :
                    /\ Ch(contentBlock, q) = "\\"
                    /\ \A j \in (p + 3)..(q - 1) : Ch(contentBlock, j) # ")"}
      starts == {p \in 1..Len(contentBlock) :
                   /\ Ch(contentBlock, p) = "\\" /\ Ch(contentBlock, p + 2) = "\\"
                   /\ InStr(LowerCh(Ch(contentBlock, p + 1)), MoreClassChars)
                   /\ ends(p) # {}}
      last(qs) == CHOOSE q \in qs : \A j \in qs : q >= j
      group(first) == IF first = 0 THEN Undefined
                      ELSE Str(slice(contentBlock, first + 3, last(ends(first))))
  IN group(FirstOr(starts, 0))

\* "Priority 4": the loop over the markdown links.  The image test
\* /\\.(?:png|...)$/ asks for a backslash in the URL and rejects none; a
\* link is skipped only when its text starts with "!".  A content block with
\* a backslash is taken by "Priority 3" before it gets here.
RECURSIVE genericLink(_, _)
genericLink(s, from) ==
  LET linkOf(m) == IF ~m.found THEN Undefined
                   ELSE IF Ch(m.text, 1) # "!" THEN Str(m.url)
                   ELSE genericLink(s, m.next)
  IN linkOf(mdLinkFrom(s, from))

UrlStopChars == " \t\n\r<>)"

\* the next match of /(https?:\/\/[^\s<>)]+)/g at or after from: <<url, next>>
RECURSIVE rawUrlFrom(_, _)
rawUrlFrom(s, from) ==
  LET found(p, u, e) == IF p = 0 THEN <<"", 0>>
                        ELSE IF u > 0 /\ e > u THEN <<slice(s, p, e - 1), e>>
                        ELSE rawUrlFrom(s, p + 1)
      after(p, u) == found(p, u, IF u = 0 THEN 0 ELSE u + RunLenNot(s, u, UrlStopChars))
      at(p) == after(p, IF At(s, p, "http://") THEN p + 7
                        ELSE IF At(s, p, "https://") THEN p + 8 ELSE 0)
  IN at(IndexFrom(s, "http", from))

\* every raw URL of the text, in order
RECURSIVE rawUrls(_, _)
rawUrls(s, from) ==
  LET rest(m) == IF m[1] = "" THEN <<>> ELSE <<m[1]>> \o rawUrls(s, m[2])
  IN rest(rawUrlFrom(s, from))

\* "Skip common image hosts or extensions": the extension test asks for a
\* backslash and skips nothing
isSkippedUrl(url) == includes(url, "imgur.com") \/ includes(url, "imageshack.us")

PriorityDomains == <<"github.com", "gitlab.com", "bitbucket.org", "jetbrains.com",
                     "visualstudio.com", "microsoft.com", "eclipse.dev", "neovim.io",
                     "sublimetext.com", "vim.org", "git-scm.com">>

isPriorityUrl(url) == \E k \in 1..Len(PriorityDomains) : includes(url, PriorityDomains[k])

\* "Priority 5: Raw URLs"
rawUrlLink(contentBlock) ==
  LET first(priorityUrls, otherUrls) ==
        IF Len(priorityUrls) > 0 THEN Str(priorityUrls[1])
        ELSE IF Len(otherUrls) > 0 THEN Str(otherUrls[1])
        ELSE Undefined
      among(urls) == first(SelectSeq(urls, isPriorityUrl), urls)
  IN among(SelectSeq(rawUrls(contentBlock, 1), LAMBDA u : ~isSkippedUrl(u)))

extractDetailLink(headingLine, contentBlock) ==
  OrElse(headingLink(headingLine),
    OrElse(explicitLink(contentBlock),
      OrElse(moreLink(contentBlock),
        OrElse(genericLink(contentBlock, 1), rawUrlLink(contentBlock)))))

----------------------------------------------------------------------------
\* Consolidator: consolidateVersions, with Array.prototype.sort as the
\* engine runs it on an array of fewer than 64 elements: the leading run is
\* found (and reversed when it descends), then the remaining elements are put
\* in place by binary insertion.

\* a key that is an array index: Object.keys lists these first, in
\* ascending numeric order, and the other keys after them in insertion order
IsArrayIndex(key) == AllDigits(key) /\ Len(key) <= 9 /\ (key = "0" \/ Ch(key, 1) # "0")

\* the entries of dict whose key is an array index, in ascending order
RECURSIVE insertByIndex(_, _)
insertByIndex(sorted, e) ==
  IF sorted = <<>> THEN <<e>>
  ELSE IF parseInt(e.version) < parseInt(Head(sorted).version) THEN <<e>> \o sorted
  ELSE <<Head(sorted)>> \o insertByIndex(Tail(sorted), e)

RECURSIVE indexKeysAscending(_)
indexKeysAscending(dict) ==
  IF dict = <<>> THEN <<>>
  ELSE IF IsArrayIndex(dict[Len(dict)].version)
       THEN insertByIndex(indexKeysAscending(SubSeq(dict, 1, Len(dict) - 1)), dict[Len(dict)])
  ELSE indexKeysAscending(SubSeq(dict, 1, Len(dict) - 1))

\* Object.keys(dict) with the value of each key: an object is the sequence
\* of its properties in insertion order
ObjectEntries(dict) ==
  indexKeysAscending(dict) \o SelectSeq(dict, LAMBDA e : ~IsArrayIndex(e.version))

\* (a, b) => compareVersions(b.version, a.version), the comparator given to sort
sortCompare(x, y) == compareVersions(y.version, x.version)

\* the last position of the run that starts at position 1 and holds k elements
RECURSIVE runEnd(_, _, _, _)
runEnd(arr, comparefn, descending, k) ==
  IF k + 1 > Len(arr) THEN k
  ELSE LET ends(order) == (descending /\ order >= 0) \/ (~descending /\ order < 0)
       IN IF ends(comparefn[arr[k + 1], arr[k]]) THEN k
          ELSE runEnd(arr, comparefn, descending, k + 1)

RECURSIVE reverse(_)
reverse(arr) == IF arr = <<>> THEN <<>> ELSE reverse(Tail(arr)) \o <<Head(arr)>>

\* the array with its leading run made ascending, and the length of the run
countAndMakeRun(arr, comparefn) ==
  LET made(descending, n) ==
        IF descending
        THEN <<reverse(SubSeq(arr, 1, n)) \o SubSeq(arr, n + 1, Len(arr)), n>>
        ELSE <<arr, n>>
      run(descending) == made(descending, runEnd(arr, comparefn, descending, 2))
  IN run(comparefn[arr[2], arr[1]] < 0)

\* the place of pivot among arr[left..right-1]
RECURSIVE binarySearch(_, _, _, _, _)
binarySearch(arr, comparefn, pivot, left, right) ==
  IF left >= right THEN left
  ELSE LET mid == left + ((right - left) \div 2)
       IN IF comparefn[pivot, arr[mid]] < 0
          THEN binarySearch(arr, comparefn, pivot, left, mid)
          ELSE binarySearch(arr, comparefn, pivot, mid + 1, right)

RECURSIVE binaryInsertionSort(_, _, _)
binaryInsertionSort(arr, comparefn, start) ==
  IF start > Len(arr) THEN arr
  ELSE LET placed(pivot, pos) ==
             SubSeq(arr, 1, pos - 1) \o <<pivot>> \o SubSeq(arr, pos, start - 1)
               \o SubSeq(arr, start + 1, Len(arr))
       IN binaryInsertionSort(placed(arr[start], binarySearch(arr, comparefn, arr[start], 1, start)),
                              comparefn, start + 1)

\* consolidated.sort((a, b) => compareVersions(b.version, a.version)) : the
\* comparator is handed to the sort as a function over the elements of arr
arraySort(arr) ==
  IF Len(arr) < 2 THEN arr
  ELSE LET elements == {arr[k] : k \in 1..Len(arr)}
           sorted(comparefn, run) == binaryInsertionSort(run[1], comparefn, run[2] + 1)
           sortWith(comparefn) == sorted(comparefn, countAndMakeRun(arr, comparefn))
       IN sortWith([x \in elements, y \in elements |-> sortCompare(x, y)])

\* the least description length consolidateVersions keeps
MinConsolidatedLength == 10

\* a filter that keeps every description that is present
hasAnyDescription(data) == data.description # ""

\* "Skip entries without meaningful descriptions"
hasMeaningfulDescription(data) == data.description # "" /\ Len(data.description) >= MinConsolidatedLength

consolidateVersions(patchesDict) ==
  arraySort(SelectSeq(ObjectEntries(patchesDict), hasMeaningfulDescription))

----------------------------------------------------------------------------
\* Generic Segmenter: extractChangelogBlocks.

\* The fence marker.  The source's marker is three backquotes, a character a
\* TLA+ string cannot hold: the documents of this model write a fence with
\* three tildes.
Fence == "~~~"

\* trimmedLine.match(/^(#+)\s+(.*)/) : <<level, heading text>>, level 0 when
\* the line is no heading
headingMatch(trimmedLine) ==
  LET level == RunLen(trimmedLine, 1, "#")
      gap == RunLen(trimmedLine, level + 1, Whitespace)
  IN IF level >= 1 /\ gap >= 1
     THEN <<level, trim(From(trimmedLine, level + gap + 1))>>
     ELSE <<0, "">>

\* what the loop body finds in a line: a fence, an accepted heading with its
\* label and level, or neither
scanLine(line) ==
  LET trimmedLine == trim(line)
      h == headingMatch(trimmedLine)
  IN [fence |-> startsWith(trimmedLine, Fence),
      version |-> IF h[1] > 0 THEN extractValidVersionOrTitle(h[2]) ELSE NoLabel,
      level |-> h[1]]

RECURSIVE join(_, _)
join(contentLines, sep) ==
  IF contentLines = <<>> THEN ""
  ELSE IF Len(contentLines) = 1 THEN contentLines[1]
  ELSE contentLines[1] \o sep \o join(Tail(contentLines), sep)

\* (headingLine.match(/\]\((.*?)\)/) || [])[1]
headingLinkFallback(headingLine) ==
  LET j == IndexFrom(headingLine, "](", 1)
      k == IndexFrom(headingLine, ")", j + 2)
  IN IF j > 0 /\ k > 0 THEN Str(slice(headingLine, j + 2, k - 1)) ELSE Undefined

\* the position of the property version in entries, 0 when it has none
RECURSIVE propertyIndex(_, _)
propertyIndex(entries, version) ==
  IF entries = <<>> THEN 0
  ELSE IF entries[Len(entries)].version = version THEN Len(entries)
  ELSE propertyIndex(SubSeq(entries, 1, Len(entries) - 1), version)

\* entries[version] = value : a new property goes last, an old one keeps its place
setProperty(entries, value) ==
  LET k == propertyIndex(entries, value.version)
  IN IF k = 0 THEN Append(entries, value) ELSE [entries EXCEPT ![k] = value]

\* the greatest length of a description that counts as "empty"
EmptyBlockLength == 5

\* the block as processBlock reads it: its label, whether it has lines, its
\* cleaned description and the link found for it
closedBlock(block) ==
  LET described(description) ==
        [version |-> block.version,
         hasContent |-> Len(block.contentLines) > 0,
         description |-> description,
         detailLink |-> OrElse(extractDetailLink(block.headingLine, description),
                               headingLinkFallback(block.headingLine))]
  IN described(cleanDescriptionBlock(join(block.contentLines, "\n")))

\* a block replaces the stored one whatever the lengths
replacesStoredAlways(entries, version, description) == TRUE

\* "Only add/update if this version isn't already captured or if the new
\* description is longer"
replacesStored(entries, version, description) ==
  LET k == propertyIndex(entries, version)
  IN k = 0 \/ Len(description) > Len(entries[k].description)

\* "Process the previous block if it exists and has content"
processBlock(entries, closed) ==
  LET k == propertyIndex(entries, closed.version)
  IN IF /\ closed.version # NoLabel /\ closed.hasContent
        /\ Len(closed.description) > EmptyBlockLength
        /\ replacesStored(entries, closed.version, closed.description)
     THEN setProperty(entries,
            [version |-> closed.version, description |-> closed.description,
             detailLink |-> OrElse(closed.detailLink,
                                   IF k = 0 THEN Undefined ELSE entries[k].detailLink)])
     ELSE entries

\* the least trimmed description length the final cleanup keeps
MinDescriptionLength == 15

\* version.replace(/^v/i, '').trim()
versionIdentifier(version) ==
  trim(IF Ch(version, 1) \in {"v", "V"} THEN Tail(version) ELSE version)

\* a cleanup that forgets the length test
isMinimalOrRedundantNoLength(entry) ==
  LET desc == trim(entry.description)
  IN \/ desc = versionIdentifier(entry.version)
     \/ toLowerCase(desc) = toLowerCase("version " \o versionIdentifier(entry.version))

\* "Remove entries where the description is essentially just the version
\* identifier again or too short"
isMinimalOrRedundant(entry) ==
  LET desc == trim(entry.description)
  IN \/ Len(desc) < MinDescriptionLength
     \/ desc = versionIdentifier(entry.version)
     \/ toLowerCase(desc) = toLowerCase("version " \o versionIdentifier(entry.version))

finalCleanup(entries) == SelectSeq(entries, LAMBDA e : ~isMinimalOrRedundant(e))

NoBlock == [version |-> NoLabel, headingLine |-> "", contentLines |-> <<>>, headingLevel |-> 0]

----------------------------------------------------------------------------
\* Dated "what's new" segmenter: extractIDEChangelog.

\* [0-9]+\.[0-9]+(?:\.[0-9]+)? matched at position i of s: the text matched, "" when none
dottedNumberAt(s, i) ==
  LET third(e) == IF Ch(s, e) = "." /\ RunLen(s, e + 1, Digits) >= 1
                  THEN slice(s, i, e + RunLen(s, e + 1, Digits)) ELSE slice(s, i, e - 1)
      second(a, b) == IF a >= 1 /\ Ch(s, i + a) = "." /\ b >= 1 THEN third(i + a + 1 + b) ELSE ""
      first(a) == second(a, RunLen(s, i + a + 1, Digits))
  IN first(RunLen(s, i, Digits))

\* [0-9]{4}\.[0-9](?:\.[0-9])?|\d+\.\d+\.\d+ matched at position i of s
yearOrTripleAt(s, i) ==
  LET triple(d) == IF Cardinality({k \in 1..Len(d) : Ch(d, k) = "."}) = 2 THEN d ELSE ""
  IN IF RunLen(s, i, Digits) >= 4 /\ Ch(s, i + 4) = "." /\ IsDigit(Ch(s, i + 5))
     THEN IF Ch(s, i + 6) = "." /\ IsDigit(Ch(s, i + 7)) THEN slice(s, i, i + 7) ELSE slice(s, i, i + 5)
     ELSE triple(dottedNumberAt(s, i))

\* the position after /^#+\s+/ in line, 0 when the line does not start so
afterHashes(line) ==
  LET after(level, gap) == IF level >= 1 /\ gap >= 1 THEN level + gap + 1 ELSE 0
      spaced(level) == after(level, RunLen(line, level + 1, Whitespace))
  IN spaced(RunLen(line, 1, "#"))

\* "JetBrains style": /^#+\s+(?:What'?s New|New Features|Updates?)(?:\s+in)?\s+
\* (?:[a-z0-9\s]+\s+)?(?:v\.?)?([0-9]{4}\.[0-9](?:\.[0-9])?)/im
jetBrainsVersion(line) ==
  LET low == toLowerCase(line)
      NameChars == "abcdefghijklmnopqrstuvwxyz0123456789 \t\n\r"
      year(e) == IF RunLen(line, e, Digits) >= 4 /\ Ch(line, e + 4) = "." /\ IsDigit(Ch(line, e + 5))
                 THEN IF Ch(line, e + 6) = "." /\ IsDigit(Ch(line, e + 7))
                      THEN slice(line, e, e + 7) ELSE slice(line, e, e + 5)
                 ELSE ""
      prefixed(d) == {d} \cup (IF At(low, d, "v") THEN {d + 1} ELSE {})
                         \cup (IF At(low, d, "v.") THEN {d + 2} ELSE {})
      named(c) == {c} \cup {d \in (c + 2)..(c + RunLen(low, c, NameChars)) : IsSpace(Ch(low, d - 1))}
      spaced(b) == {c \in (b + 1)..(b + RunLen(low, b, Whitespace)) : TRUE}
      inWord(a) == {a} \cup {j + 2 : j \in {j \in (a + 1)..(a + RunLen(low, a, Whitespace)) : At(low, j, "in")}}
      keyword(p) == {p + Len(w) : w \in {w \in {"what's new", "whats new", "new features", "update", "updates"} :
                                           p > 0 /\ At(low, p, w)}}
      starts(p) == UNION {UNION {UNION {UNION {prefixed(d) : d \in named(c)} : c \in spaced(b)}
                                   : b \in inWord(a)} : a \in keyword(p)}
      captures(es) == {e \in es : year(e) # ""}
      greedy(es) == IF es = {} THEN "" ELSE year(CHOOSE e \in es : \A j \in es : e >= j)
  IN greedy(captures(starts(afterHashes(line))))

\* "VS Code style": /^#+\s+(?:[a-zA-Z]+\s+[0-9]{4})\s+\(version\s+([0-9]+\.[0-9]+(?:\.[0-9]+)?)\)/im
vsCodeVersion(line) ==
  LET low == toLowerCase(line)
      closed(v, e) == IF v # "" /\ Ch(line, e + Len(v)) = ")" THEN v ELSE ""
      version(e) == closed(dottedNumberAt(line, e), e)
      opened(d, g) == IF g >= 1 /\ At(low, d + g, "(version") /\ RunLen(low, d + g + 8, Whitespace) >= 1
                      THEN version(d + g + 8 + RunLen(low, d + g + 8, Whitespace)) ELSE ""
      dated(c) == IF RunLen(low, c, Digits) >= 4 THEN opened(c + 4, RunLen(low, c + 4, Whitespace)) ELSE ""
      month(p, n, g) == IF p > 0 /\ n >= 1 /\ g >= 1 THEN dated(p + n + g) ELSE ""
      word(p, n) == month(p, n, RunLen(low, p + n, Whitespace))
      from(p) == word(p, RunLen(low, p, LowerAlpha))
  IN from(afterHashes(line))

\* "VS Code alternative style": /^#+\s+v([0-9]+\.[0-9]+(?:\.[0-9]+)?)/im
vPrefixedVersion(line) ==
  LET from(p) == IF p > 0 /\ Ch(line, p) \in {"v", "V"} THEN dottedNumberAt(line, p + 1) ELSE ""
  IN from(afterHashes(line))

\* "Generic version header": /^#+\s+(?:Version|Release)\s+([0-9]{4}\.[0-9](?:\.[0-9])?|\d+\.\d+\.\d+)/im
genericVersion(line) ==
  LET low == toLowerCase(line)
      from(p) == IF p > 0 /\ (At(low, p, "version") \/ At(low, p, "release"))
                    /\ RunLen(low, p + 7, Whitespace) >= 1
                 THEN yearOrTripleAt(line, p + 7 + RunLen(low, p + 7, Whitespace)) ELSE ""
  IN from(afterHashes(line))

\* the loop over patterns: versionMatch[1] of the first pattern that matches, "" when none
ideVersionMatch(line) ==
  LET or(x, y) == IF x # "" THEN x ELSE y
  IN or(jetBrainsVersion(line), or(vsCodeVersion(line), or(vPrefixedVersion(line), genericVersion(line))))

\* content.match(/https?:\/\/[^\s)]+(?:docs|updates|whatsnew|releases)[^\s)]*/)
ideDetailLink(content) ==
  LET stops == " \t\n\r)"
      run(u) == RunLenNot(content, u, stops)
      keyed(u) == \E k \in (u + 1)..(u + run(u) - 1) :
                    \E w \in {"docs", "updates", "whatsnew", "releases"} :
                      At(content, k, w) /\ k + Len(w) <= u + run(u)
      after(p) == IF At(content, p, "http://") THEN p + 7
                  ELSE IF At(content, p, "https://") THEN p + 8 ELSE 0
      hits == {p \in 1..Len(content) : after(p) > 0 /\ keyed(after(p))}
      matched(p) == IF p = 0 THEN Undefined ELSE Str(slice(content, p, after(p) + run(after(p)) - 1))
  IN matched(FirstOr(hits, 0))

\* the greatest length of a cleaned content that is not saved
MinIdeContentLength == 5

\* "if (cleanedContent && cleanedContent.length > 5)": the block is saved
saveIdeBlock(entries, version, buffer) ==
  LET saved(content, cleanedContent) ==
        IF Len(cleanedContent) > MinIdeContentLength
        THEN setProperty(entries, [version |-> version, description |-> cleanedContent,
                                   detailLink |-> ideDetailLink(content)])
        ELSE entries
      joined(content) == saved(content, cleanDescriptionBlock(content))
  IN joined(join(buffer, "\n"))

\* a heading that ends the section at the same or a shallower level
endsSectionShallowerOnly(line, level) == startsWith(line, "#") /\ RunLen(line, 1, "#") < level

\* line.startsWith('#') && line.match(/^#+/)[0].length <= sectionLevel
endsSection(line, level) == startsWith(line, "#") /\ RunLen(line, 1, "#") <= level

----------------------------------------------------------------------------
\* Cursor segmenter: extractCursorChangelog.

\* markdownContent.match(/^(\d+\.\d+\.x)$/m) : the first line that is a
\* wildcard version, "" when none
cursorVersion(markdownContent) ==
  LET ends(p, a, b) == a >= 1 /\ Ch(markdownContent, p + a) = "." /\ b >= 1
                       /\ At(markdownContent, p + a + 1 + b, ".x")
                       /\ IsLineEnd(markdownContent, p + a + b + 3)
      second(p, a) == ends(p, a, RunLen(markdownContent, p + a + 1, Digits))
      matches(p) == IsLineStart(markdownContent, p) /\ second(p, RunLen(markdownContent, p, Digits))
      line(p) == IF p = 0 THEN "" ELSE slice(markdownContent, p, p + RunLenNot(markdownContent, p, "\n\r") - 1)
  IN line(FirstOr({p \in 1..Len(markdownContent) : matches(p)}, 0))

\* /^#{2}\s+\[(.*?)\]\((https?:\/\/[^)]+)\)/gm matched at position p of s:
\* the title, the url and the position after the match; next is 0 when
\* there is no match at p
linkTitleAt(s, p) ==
  LET scheme(j) == IF At(s, j, "](http://") THEN 9 ELSE IF At(s, j, "](https://") THEN 10 ELSE 0
      closes(j) == scheme(j) > 0 /\ RunLenNot(s, j + scheme(j), ")") >= 1
                   /\ Ch(s, j + scheme(j) + RunLenNot(s, j + scheme(j), ")")) = ")"
      matched(b, j) ==
        IF j = 0 THEN [title |-> "", url |-> "", next |-> 0]
        ELSE [title |-> slice(s, b + 1, j - 1),
              url |-> slice(s, j + 2, j + scheme(j) + RunLenNot(s, j + scheme(j), ")") - 1),
              next |-> j + scheme(j) + RunLenNot(s, j + scheme(j), ")") + 1]
      titled(b) == matched(b, FirstOr({j \in (b + 1)..(b + 1 + RunLenNot(s, b + 1, "\n\r")) : closes(j)}, 0))
      opened(w) == IF w >= 1 /\ Ch(s, p + 2 + w) = "[" THEN titled(p + 2 + w)
                   ELSE [title |-> "", url |-> "", next |-> 0]
  IN IF IsLineStart(s, p) /\ At(s, p, "##") THEN opened(RunLen(s, p + 2, Whitespace))
     ELSE [title |-> "", url |-> "", next |-> 0]

\* the least length of a content that is not saved
MinCursorContentLength == 10

\* the loop over the linked titles of the markdown, from position from on
RECURSIVE cursorEntriesFrom(_, _, _)
cursorEntriesFrom(s, from, entries) ==
  LET nextHeading(startPos) ==
        FirstOr({q \in startPos..Len(s) : (q = startPos \/ IsLineStart(s, q)) /\ At(s, q, "##")
                                            /\ IsSpace(Ch(s, q + 2))}, Len(s) + 1)
      saved(m, content) ==
        IF Len(content) > MinCursorContentLength
        THEN setProperty(entries, [version |-> m.title, description |-> cleanDescriptionBlock(content),
                                   detailLink |-> Str(m.url)])
        ELSE entries
      taken(m) == cursorEntriesFrom(s, m.next, saved(m, trim(slice(s, m.next, nextHeading(m.next) - 1))))
      found(p) == IF p = 0 THEN entries ELSE taken(linkTitleAt(s, p))
  IN found(FirstOr({p \in from..Len(s) : linkTitleAt(s, p).next > 0}, 0))

extractCursorChangelog(markdownContent) ==
  LET versioned(v) == IF v # "" THEN <<[version |-> v, description |-> "Cursor " \o v \o " updates",
                                        detailLink |-> Null]>>
                      ELSE <<>>
  IN cursorEntriesFrom(markdownContent, 1, versioned(cursorVersion(markdownContent)))

----------------------------------------------------------------------------
\* GitHub releases segmenter: extractGitHubReleases.

\* /^#+\s+v?(\d+\.\d+(\.\d+)?(-[a-zA-Z0-9_.-]+)?)/gm matched at position p of
\* s: the version captured and the position after the match; next is 0 when
\* there is no match at p
releaseHeaderAt(s, p) ==
  LET SuffixClass == "abcdefghijklmnopqrstuvwxyzABCDEFGHIJKLMNOPQRSTUVWXYZ0123456789_.-"
      suffix(e) == IF Ch(s, e) = "-" /\ RunLen(s, e + 1, SuffixClass) >= 1
                   THEN 1 + RunLen(s, e + 1, SuffixClass) ELSE 0
      captured(d, number) ==
        IF number = "" THEN [version |-> "", next |-> 0]
        ELSE [version |-> slice(s, d, d + Len(number) + suffix(d + Len(number)) - 1),
              next |-> d + Len(number) + suffix(d + Len(number))]
      numbered(d) == captured(d, dottedNumberAt(s, d))
      prefixed(v) == numbered(IF Ch(s, v) = "v" THEN v + 1 ELSE v)
      spaced(level, gap) == IF level >= 1 /\ gap >= 1 THEN prefixed(p + level + gap)
                            ELSE [version |-> "", next |-> 0]
      hashed(level) == spaced(level, RunLen(s, p + level, Whitespace))
  IN IF IsLineStart(s, p) THEN hashed(RunLen(s, p, "#")) ELSE [version |-> "", next |-> 0]

\* releaseHeaderPattern.exec(markdownContent) with lastIndex at from (counted
\* from 0): the index of the match (counted from 0), -1 when there is none
execReleaseHeader(s, from) ==
  FirstOr({p \in (from + 1)..Len(s) : releaseHeaderAt(s, p).next > 0}, 0) - 1

\* content.match(/https:\/\/github\.com\/[^\/]+\/[^\/]+\/(?:releases|tags|compare)\/[^)\s]+/)
releaseUrl(content) ==
  LET tail(e) == RunLenNot(content, e, ") \t\n\r")
      kind(k) == IF At(content, k, "releases/") THEN k + 9
                 ELSE IF At(content, k, "tags/") THEN k + 5
                 ELSE IF At(content, k, "compare/") THEN k + 8 ELSE 0
      ended(p, k) == IF k > 0 /\ tail(k) >= 1 THEN k + tail(k) ELSE 0
      repo(p, r, n) == IF n >= 1 /\ Ch(content, r + n) = "/" THEN ended(p, kind(r + n + 1)) ELSE 0
      owner(p, o, n) == IF n >= 1 /\ Ch(content, o + n) = "/"
                        THEN repo(p, o + n + 1, RunLenNot(content, o + n + 1, "/")) ELSE 0
      end(p) == IF At(content, p, "https://github.com/")
                THEN owner(p, p + 19, RunLenNot(content, p + 19, "/")) ELSE 0
      matched(p) == IF p = 0 THEN Undefined ELSE Str(slice(content, p, end(p) - 1))
  IN matched(FirstOr({p \in 1..Len(content) : end(p) > 0}, 0))

\* the least length of a content that is looked at
MinReleaseContentLength == 5

\* the body of the loop for the match at index (counted from 0): the content
\* runs from the end of the match to the next match, or to the end
releaseEntry(entries, s, index) ==
  LET saved(version, content, cleanedContent) ==
        IF Len(content) >= MinReleaseContentLength /\ Len(cleanedContent) > MinReleaseContentLength
        THEN setProperty(entries, [version |-> version, description |-> cleanedContent,
                                   detailLink |-> releaseUrl(content)])
        ELSE entries
      cleanedOf(version, content) == saved(version, content, cleanDescriptionBlock(content))
      between(m, nextIndex) ==
        cleanedOf(m.version, trim(slice(s, m.next, IF nextIndex < 0 THEN Len(s) ELSE nextIndex)))
      matched(m) == between(m, execReleaseHeader(s, m.next - 1))
  IN matched(releaseHeaderAt(s, index + 1))

\* a reset that leaves lastIndex on the current match
lastIndexOnMatch(index) == index

\* "releaseHeaderPattern.lastIndex = match.index + 1"
lastIndexAfter(index) == index + 1

----------------------------------------------------------------------------
\* The stored changelog: the file updateChangelog writes and loadChangelog
\* reads, and the answer of the scrape.

\* the file is absent, holds text that is no JSON, or holds the JSON text of
\* a list of objects
NoFile == [state |-> "absent", data |-> <<>>]
CorruptFile == [state |-> "corrupt", data |-> <<>>]

\* JSON.stringify of an entry: a property whose value is undefined is left out
stringifyEntry(entry) ==
  IF entry.detailLink.kind = "undefined"
  THEN [version |-> entry.version, description |-> entry.description]
  ELSE [version |-> entry.version, description |-> entry.description,
        detailLink |-> entry.detailLink]

\* JSON.stringify(changelog, null, 2), as the file that holds it
stringify(changelog) ==
  [state |-> "json", data |-> [k \in 1..Len(changelog) |-> stringifyEntry(changelog[k])]]

\* JSON.parse(data) as ChangelogEntry[] : a property the text lacks reads as undefined
parse(data) ==
  [k \in 1..Len(data) |->
     [version |-> data[k].version, description |-> data[k].description,
      detailLink |-> IF "detailLink" \in DOMAIN data[k] THEN data[k].detailLink ELSE Undefined]]

\* loadChangelog: the empty list for a missing or unreadable file, otherwise
\* the parsed list sorted again
loadChangelog(f) ==
  IF f.state # "json" THEN <<>>
  ELSE LET sortedData(parsedData) ==
             IF Len(parsedData) > 0 THEN arraySort(parsedData) ELSE parsedData
       IN sortedData(parse(f.data))

\* the scrape throws, or answers with an object
NoResponse == [kind |-> "none", success |-> FALSE, markdown |-> Undefined]
ThrowingResponse == [kind |-> "throws", success |-> FALSE, markdown |-> Undefined]

\* the markdown must be longer than this, trimmed, to be taken
MinMarkdownLength == 50

\* markdownContent: the markdown of the answer, or null (here undefined)
\* when it is missing or too short; the answers of this model carry no rawHtml
markdownContent(anyResponse) ==
  IF anyResponse.markdown.kind = "string"
     /\ Len(trim(anyResponse.markdown.value)) > MinMarkdownLength
  THEN anyResponse.markdown
  ELSE Undefined

----------------------------------------------------------------------------
\* The calls the Get Latest view makes.

\* getLatestVersion on the stored file f for the tool called name: null for
\* an empty list; for Cursor the first entry shaped N.N.x; the second entry
\* when the first is "Unreleased"; otherwise the first entry
getLatestVersion(name, f) ==
  LET unreleasedFirst(changelog) == changelog[1].version = "Unreleased" /\ Len(changelog) > 1
      firstOf(changelog) == IF unreleasedFirst(changelog) THEN changelog[2] ELSE changelog[1]
      cursorFirst(changelog, versionEntries) ==
        IF name = "Cursor" /\ Len(versionEntries) > 0 THEN versionEntries[1]
        ELSE firstOf(changelog)
      latest(changelog) ==
        IF Len(changelog) = 0 THEN Null
        ELSE cursorFirst(changelog, SelectSeq(changelog, LAMBDA entry : IsCursorVersion(entry.version)))
  IN latest(loadChangelog(f))

\* the file updateChangelog leaves for Cursor when the scrape gives
\* anyResponse and the file was f: the consolidated entries of the markdown,
\* or f as it was when the scrape fails or nothing is extracted
updateChangelog(f, anyResponse) ==
  LET saved(allPatches) ==
        IF allPatches = <<>> THEN f ELSE stringify(consolidateVersions(allPatches))
  IN IF anyResponse.kind = "throws" \/ ~anyResponse.success
        \/ ~Truthy(markdownContent(anyResponse))
     THEN f
     ELSE saved(extractCursorChangelog(markdownContent(anyResponse).value))

\* allEntries.findIndex(entry => entry.version === version), -1 when none
findIndex(allEntries, version) ==
  FirstOr({k \in 1..Len(allEntries) : allEntries[k].version = version}, 0) - 1

\* allVersions[index]: undefined (here null, as falsy) outside the list
elementAt(list, index) ==
  IF index >= 0 /\ index < Len(list) THEN list[index + 1] ELSE Null

----------------------------------------------------------------------------
\* State.

VARIABLES
  pc,            \* the step the running operation is at
  la, lb, lc,    \* three labels given to compareVersions
  cmp,           \* the results of compareVersions on them
  lines,         \* markdownContent.split('\n')
  lineNo,        \* the loop variable of extractChangelogBlocks, counted from 1
  currentBlock,  \* the open block
  inCodeBlock,   \* inside a code fence
  entries,       \* the label -> block map, properties in insertion order
  blocks,        \* history: every block closed so far, as it was cleaned
  consolidated,  \* the list consolidateVersions returned
  heading, body, \* the heading line and content block given to extractDetailLink
  link,          \* what extractDetailLink returned
  response,      \* what the scrape gives updateChangelog
  file,          \* the stored changelog file
  result,        \* what updateChangelog returned
  headingText,   \* the heading text given to extractValidVersionOrTitle
  potentialVersionOrTitle,  \* what extractValidVersionOrTitle returned
  desc,          \* the text given to cleanDescriptionBlock
  cleaned,       \* what cleanDescriptionBlock returned
  currentVersion, \* extractIDEChangelog: the version of the open block, or null
  contentBuffer, \* extractIDEChangelog: the lines of the open block
  sectionLevel,  \* extractIDEChangelog: the heading level of the open block
  toolName,      \* toolInfo.name, the tool updateChangelog runs for
  releasesMarkdown, \* the markdown given to extractGitHubReleases
  lastIndex,     \* releaseHeaderPattern.lastIndex
  visited,       \* history: match.index of every turn of the loop
  isLoading, latestVersion, needsUpdate, allVersions, currentVersionIndex,
                 \* the state of the Get Latest view
  calls          \* the fetchLatest and refreshChangelog calls: where each one is

vars == <<pc, la, lb, lc, cmp, lines, lineNo, currentBlock, inCodeBlock, entries, blocks,
          consolidated, heading, body, link, response, file, result, headingText,
          potentialVersionOrTitle, desc, cleaned,
          currentVersion, contentBuffer, sectionLevel, toolName,
          releasesMarkdown, lastIndex, visited,
          isLoading, latestVersion, needsUpdate, allVersions, currentVersionIndex, calls>>

cmpVars == <<la, lb, lc, cmp>>
segVars == <<lines, lineNo, currentBlock, inCodeBlock, blocks>>
linkVars == <<heading, body, link>>
updVars == <<response, file, result, toolName>>
titleVars == <<headingText, potentialVersionOrTitle>>
cleanVars == <<desc, cleaned>>
\* the variables of the operations described further down
ideVars == <<currentVersion, contentBuffer, sectionLevel>>
relVars == <<releasesMarkdown, lastIndex, visited>>
viewVars == <<isLoading, latestVersion, needsUpdate, allVersions, currentVersionIndex, calls>>
otherVars == <<cleanVars, ideVars, relVars, viewVars>>

\* the labels the comparator is run on: every shape the comparator tells apart
LabelPool == {"0.48.x", "1.2.x", "2024-01-01", "2023.12.31", "_2024-01-02_",
              "1.2.0", "1.1.0", "1.10.0", "1.9.0", "2.0.0",
              "1.2.3", "1.2.4", "1.2.3-alpha", "1.2.3-beta",
              "1.0rc1", "1.0beta2",
              "v2024.9.1", "v2024.10.1", "2024.5",
              "New Feature Announcement", "Release 9", "release 9"}

NoResult == [ab |-> 0, ba |-> 0, bc |-> 0, ac |-> 0, aa |-> 0]

\* the values of the variables an operation does not use
IdleCmp == la = "" /\ lb = "" /\ lc = "" /\ cmp = NoResult
IdleSeg ==
  /\ lines = <<>> /\ lineNo = 1 /\ currentBlock = NoBlock /\ inCodeBlock = FALSE
  /\ blocks = <<>>
IdleLink == heading = "" /\ body = "" /\ link = Undefined
IdleUpd == response = NoResponse /\ file = NoFile /\ result = <<>> /\ toolName = ""
IdleTitle == headingText = "" /\ potentialVersionOrTitle = NoLabel
IdleClean == desc = "" /\ cleaned = ""
IdleIde == currentVersion = NoLabel /\ contentBuffer = <<>> /\ sectionLevel = 0
IdleRel == releasesMarkdown = "" /\ lastIndex = 0 /\ visited = <<>>
IdleView ==
  /\ isLoading = FALSE /\ latestVersion = Null /\ needsUpdate = FALSE
  /\ allVersions = <<>> /\ currentVersionIndex = 0 /\ calls = <<>>
IdleRelView == IdleRel /\ IdleView
IdleOther == IdleClean /\ IdleIde /\ IdleRelView

----------------------------------------------------------------------------
\* The comparator on three labels.

InitCmp ==
  /\ IdleTitle /\ IdleOther
  /\ pc = "compare"
  /\ la \in LabelPool /\ lb \in LabelPool /\ lc \in LabelPool
  /\ cmp = NoResult
  /\ IdleSeg /\ entries = <<>> /\ consolidated = <<>> /\ IdleLink /\ IdleUpd

CompareLabels ==
  /\ pc = "compare"
  /\ cmp' = [ab |-> compareVersions(la, lb), ba |-> compareVersions(lb, la),
             bc |-> compareVersions(lb, lc), ac |-> compareVersions(la, lc),
             aa |-> compareVersions(la, la)]
  /\ pc' = "compared"
  /\ UNCHANGED <<titleVars, otherVars, la, lb, lc, segVars, entries, consolidated, linkVars, updVars>>

NextCmp == CompareLabels

SpecCmp == InitCmp /\ [][NextCmp]_vars

----------------------------------------------------------------------------
\* The Generic Segmenter over a document, then the Consolidator, as
\* updateChangelog runs them.

LongBody == "Fixed the crash on startup"
LinkBody == "See http://b/x"
ShortBody == "Fix"

\* the lines documents are made of: version headings with bodies and a fence,
\* or title headings with bodies that restate the title
LinePool == {"## 1.2.0", "## 1.1.0", LongBody, LinkBody, ShortBody, Fence}
TitlePool == {"## New Feature Announcement", "New Feature Announcement", "new feature announcement",
              "## Version 2.0 released today", "Version 2.0 released today"}

\* the lines of a Cursor changelog: the version line, a linked title, a
\* boilerplate phrase and a sentence
CursorPool == {"0.48.x", "## [New Tab model](http://cursor.com/changelog/tab)", "What's Changed", LongBody}

\* every sequence of at most n elements of S
SeqUpTo(S, n) == UNION {[1..k -> S] : k \in 0..n}

\* scanLine on the lines of the documents
lineTable == [line \in LinePool \cup TitlePool \cup CursorPool |-> scanLine(line)]

InitSeg ==
  /\ IdleTitle /\ IdleOther
  /\ pc = "scan"
  /\ lines \in SeqUpTo(LinePool, MaxLines) \cup SeqUpTo(TitlePool, MaxLines)
  /\ lineNo = 1 /\ currentBlock = NoBlock /\ inCodeBlock = FALSE
  /\ entries = <<>> /\ blocks = <<>> /\ consolidated = <<>>
  /\ IdleCmp /\ IdleLink /\ IdleUpd

\* the history keeps every closed block that has a label
recordBlock(history, closed) ==
  IF closed.version # NoLabel THEN Append(history, closed) ELSE history

pushLine(block, line) ==
  IF block.version # NoLabel THEN [block EXCEPT !.contentLines = Append(@, line)] ELSE block

\* "Track code blocks": a fence line toggles the flag and goes to the open block
FenceLine ==
  /\ pc = "scan" /\ lineNo <= Len(lines)
  /\ lineTable[lines[lineNo]].fence
  /\ inCodeBlock' = ~inCodeBlock
  /\ currentBlock' = pushLine(currentBlock, lines[lineNo])
  /\ lineNo' = lineNo + 1
  /\ UNCHANGED <<titleVars, otherVars, pc, lines, entries, blocks, consolidated, cmpVars, linkVars, updVars>>

\* a line inside a fence goes to the open block as it is
CodeLine ==
  /\ pc = "scan" /\ lineNo <= Len(lines)
  /\ ~lineTable[lines[lineNo]].fence /\ inCodeBlock
  /\ currentBlock' = pushLine(currentBlock, lines[lineNo])
  /\ lineNo' = lineNo + 1
  /\ UNCHANGED <<titleVars, otherVars, pc, lines, inCodeBlock, entries, blocks, consolidated, cmpVars, linkVars, updVars>>

\* an accepted heading that does not look at the fence flag
HeadingLineInFence ==
  /\ pc = "scan" /\ lineNo <= Len(lines)
  /\ LET accepted(scanned) ==
           /\ ~scanned.fence
           /\ scanned.version # NoLabel
           /\ currentBlock' = [version |-> scanned.version,
                               headingLine |-> lines[lineNo],
                               contentLines |-> <<>>,
                               headingLevel |-> scanned.level]
         closes(closed) ==
           /\ entries' = processBlock(entries, closed)
           /\ blocks' = recordBlock(blocks, closed)
     IN accepted(lineTable[lines[lineNo]]) /\ closes(closedBlock(currentBlock))
  /\ lineNo' = lineNo + 1
  /\ UNCHANGED <<titleVars, otherVars, pc, lines, inCodeBlock, consolidated, cmpVars, linkVars, updVars>>

\* an accepted heading that opens the next block with the lines of the last
HeadingLineKeepingLines ==
  /\ pc = "scan" /\ lineNo <= Len(lines)
  /\ LET accepted(scanned) ==
           /\ ~scanned.fence /\ ~inCodeBlock
           /\ scanned.version # NoLabel
           /\ currentBlock' = [version |-> scanned.version,
                               headingLine |-> lines[lineNo],
                               contentLines |-> currentBlock.contentLines,
                               headingLevel |-> scanned.level]
         closes(closed) ==
           /\ entries' = processBlock(entries, closed)
           /\ blocks' = recordBlock(blocks, closed)
     IN accepted(lineTable[lines[lineNo]]) /\ closes(closedBlock(currentBlock))
  /\ lineNo' = lineNo + 1
  /\ UNCHANGED <<titleVars, otherVars, pc, lines, inCodeBlock, consolidated, cmpVars, linkVars, updVars>>

\* an accepted heading closes the open block and opens the next one
HeadingLine ==
  /\ pc = "scan" /\ lineNo <= Len(lines)
  /\ LET accepted(scanned) ==
           /\ ~scanned.fence /\ ~inCodeBlock
           /\ scanned.version # NoLabel
           /\ currentBlock' = [version |-> scanned.version,
                               headingLine |-> lines[lineNo],
                               contentLines |-> <<>>,
                               headingLevel |-> scanned.level]
         closes(closed) ==
           /\ entries' = processBlock(entries, closed)
           /\ blocks' = recordBlock(blocks, closed)
     IN accepted(lineTable[lines[lineNo]]) /\ closes(closedBlock(currentBlock))
  /\ lineNo' = lineNo + 1
  /\ UNCHANGED <<titleVars, otherVars, pc, lines, inCodeBlock, consolidated, cmpVars, linkVars, updVars>>

\* any other line goes to the open block, or is dropped when none is open
BodyLine ==
  /\ pc = "scan" /\ lineNo <= Len(lines)
  /\ LET other(scanned) == ~scanned.fence /\ scanned.version = NoLabel
     IN other(lineTable[lines[lineNo]]) /\ ~inCodeBlock
  /\ currentBlock' = pushLine(currentBlock, lines[lineNo])
  /\ lineNo' = lineNo + 1
  /\ UNCHANGED <<titleVars, otherVars, pc, lines, inCodeBlock, entries, blocks, consolidated, cmpVars, linkVars, updVars>>

\* "Process the very last block after the loop finishes"
LastBlock ==
  /\ pc = "scan" /\ lineNo > Len(lines)
  /\ LET closes(closed) ==
           /\ entries' = processBlock(entries, closed)
           /\ blocks' = recordBlock(blocks, closed)
     IN closes(closedBlock(currentBlock))
  /\ pc' = "cleanup"
  /\ UNCHANGED <<titleVars, otherVars, lines, lineNo, currentBlock, inCodeBlock, consolidated, cmpVars, linkVars, updVars>>

\* "Final Cleanup", after which extractChangelogBlocks returns entries
FinalCleanup ==
  /\ pc = "cleanup"
  /\ entries' = finalCleanup(entries)
  /\ pc' = "extracted"
  /\ UNCHANGED <<titleVars, otherVars, segVars, consolidated, cmpVars, linkVars, updVars>>

\* consolidateVersions(allPatches)
Consolidate ==
  /\ pc = "extracted"
  /\ consolidated' = consolidateVersions(entries)
  /\ pc' = "done"
  /\ UNCHANGED <<titleVars, otherVars, segVars, entries, cmpVars, linkVars, updVars>>

NextSeg == FenceLine \/ CodeLine \/ HeadingLine \/ BodyLine \/ LastBlock \/ FinalCleanup \/ Consolidate

SpecSeg == InitSeg /\ [][NextSeg]_vars

----------------------------------------------------------------------------
\* The Consolidator on a map of its own.

ConsLabels == {"0.48.x", "1.2.x", "2024-01-01", "2023.12.31", "1.0.0",
               "New Feature Announcement", "7"}

\* consecutive versions, titles and a build number ("## Build 12345" is
\* classified to the label 12345)
MoreConsLabels == {"1.2.3", "1.2.4", "Release 9", "Alpha update", "12345"}

\* the maps of n properties over a set of labels: distinct labels in every
\* insertion order, each with a long or a short description
MapsOver(labels, n) ==
  {m \in [1..n -> [version : labels, description : {LongBody, ShortBody},
                   detailLink : {Undefined}]] :
     \A j, k \in 1..n : j # k => m[j].version # m[k].version}

MapsOf(n) == MapsOver(ConsLabels, n) \cup MapsOver(MoreConsLabels, n)

\* maps of six properties: two versions, three labels that mix the date and
\* the version comparison in every order, and a build number
LargeMaps ==
  LET mixed == {"v2024.9.1", "v2024.10.1", "2024.5"}
      orders == {t \in mixed \X mixed \X mixed : Cardinality({t[1], t[2], t[3]}) = 3}
  IN {[k \in 1..6 |-> [version |-> <<"1.0.0", "2.0.0", t[1], t[2], t[3], "12345">>[k],
                       description |-> LongBody, detailLink |-> Undefined]] : t \in orders}

\* maps of two properties whose descriptions are absent, one character short
\* of the least length kept, or of that length, with and without a link
BoundaryMaps ==
  {m \in [1..2 -> [version : {"1.2.3", "1.2.4"}, description : {"", "123456789", "1234567890"},
                   detailLink : {Undefined, Str("http://b/x")}]] : m[1].version # m[2].version}

InitCons ==
  /\ IdleTitle /\ IdleOther
  /\ pc = "extracted"
  /\ entries \in UNION {MapsOf(n) : n \in 0..MaxKeys} \cup LargeMaps \cup BoundaryMaps
  /\ consolidated = <<>>
  /\ IdleSeg /\ IdleCmp /\ IdleLink /\ IdleUpd

NextCons == Consolidate

SpecCons == InitCons /\ [][NextCons]_vars

----------------------------------------------------------------------------
\* The Link Extractor on a heading line and a content block.

HeadingPool == {"## Release 9",
                "## [Release 9](http://a/rel)",
                "## [logo](http://a/l.png) [Release 9](http://a/rel)",
                "## [logo](http://a/l.PNG)",
                "## [Release 9]()",
                "## [](http://a/rel)"}

BodyPool == {"",
             LongBody,
             LinkBody,
             "[Full Changelog](http://a/cl)",
             "Release Notes (http://a/rn)",
             "[docs](http://a/d)",
             "[pic](http://a/p.png)",
             "https://github.com/o/r/releases/tag/v1",
             "[pic](http://a/p.png) [docs](http://a/d)",
             "Read more (http://a/m)",
             "[docs](http://a/d) [See more](http://a/m)",
             "[docs](http://a/d) \\S\\http://a/m\\"}

InitLink ==
  /\ IdleTitle /\ IdleOther
  /\ pc = "link"
  /\ heading \in HeadingPool /\ body \in BodyPool
  /\ link = Undefined
  /\ IdleSeg /\ IdleCmp /\ entries = <<>> /\ consolidated = <<>> /\ IdleUpd

ExtractLink ==
  /\ pc = "link"
  /\ link' = extractDetailLink(heading, body)
  /\ pc' = "linked"
  /\ UNCHANGED <<titleVars, otherVars, heading, body, segVars, cmpVars, entries, consolidated, updVars>>

NextLink == ExtractLink

SpecLink == InitLink /\ [][NextLink]_vars

----------------------------------------------------------------------------
\* updateChangelog for a tool other than Cursor: the scrape, the Generic
\* Segmenter over the markdown, then the save or the fallback.

UpdatePool == {"## 1.2.0", LongBody, Fence}

\* the stored files: none, an unreadable one, and lists an earlier update saved
StoredFiles ==
  {NoFile, CorruptFile,
   stringify(<<[version |-> "1.1.0", description |-> LongBody, detailLink |-> Str("http://b/x")],
               [version |-> "1.2.0", description |-> LongBody, detailLink |-> Undefined]>>),
   stringify(<<[version |-> "2024-01-01", description |-> LongBody, detailLink |-> Undefined]>>)}

\* longest Cursor changelog, in lines
MaxCursorLines == 3

Responses ==
  {ThrowingResponse}
    \cup [kind : {"object"}, success : BOOLEAN, markdown : {Undefined}]
    \cup [kind : {"object"}, success : BOOLEAN,
          markdown : {Str(join(doc, "\n")) : doc \in SeqUpTo(UpdatePool, MaxLines)
                                                       \cup SeqUpTo(CursorPool, MaxCursorLines)}]

InitUpd ==
  /\ IdleTitle /\ IdleOther
  /\ pc = "update"
  /\ response \in Responses
  /\ file \in StoredFiles
  /\ toolName \in {"Cursor", "VS Code"}
  /\ result = <<>>
  /\ IdleSeg /\ IdleCmp /\ IdleLink /\ entries = <<>> /\ consolidated = <<>>

\* the scrape throws: the catch block returns the stored entries
ScrapeThrows ==
  /\ pc = "update" /\ response.kind = "throws"
  /\ result' = loadChangelog(file)
  /\ pc' = "returned"
  /\ UNCHANGED <<titleVars, otherVars, response, toolName, file, segVars, cmpVars, linkVars, entries, consolidated>>

\* "if (!success || !markdownContent)": falling back to the stored entries
ScrapeFails ==
  /\ pc = "update" /\ response.kind = "object"
  /\ ~response.success \/ ~Truthy(markdownContent(response))
  /\ result' = loadChangelog(file)
  /\ pc' = "returned"
  /\ UNCHANGED <<titleVars, otherVars, response, toolName, file, segVars, cmpVars, linkVars, entries, consolidated>>

\* "Special handling for Cursor changelog": the markdown goes to extractCursorChangelog
ScrapeDeliversCursor ==
  /\ pc = "update" /\ response.kind = "object"
  /\ response.success /\ Truthy(markdownContent(response))
  /\ toolName = "Cursor"
  /\ entries' = extractCursorChangelog(markdownContent(response).value)
  /\ pc' = "extracted"
  /\ UNCHANGED <<titleVars, otherVars, segVars, consolidated, cmpVars, linkVars, updVars>>

\* "Standard extraction for other tools": the markdown goes to extractChangelogBlocks
ScrapeDelivers ==
  /\ pc = "update" /\ response.kind = "object"
  /\ response.success /\ Truthy(markdownContent(response))
  /\ toolName # "Cursor"
  /\ lines' = split(markdownContent(response).value, "\n")
  /\ pc' = "scan"
  /\ UNCHANGED <<titleVars, otherVars, lineNo, currentBlock, inCodeBlock, blocks, entries, consolidated,
                 cmpVars, linkVars, updVars>>

\* an empty extraction that saves the empty list it consolidated
NoEntriesSavingNothing ==
  /\ pc = "extracted" /\ entries = <<>>
  /\ file' = stringify(<<>>)
  /\ result' = <<>>
  /\ pc' = "returned"
  /\ UNCHANGED <<titleVars, otherVars, response, toolName, segVars, cmpVars, linkVars, entries, consolidated>>

\* "if (Object.keys(allPatches).length === 0)": return old data
NoEntries ==
  /\ pc = "extracted" /\ entries = <<>>
  /\ result' = loadChangelog(file)
  /\ pc' = "returned"
  /\ UNCHANGED <<titleVars, otherVars, response, toolName, file, segVars, cmpVars, linkVars, entries, consolidated>>

\* consolidate, save to the file and return the list
SaveChangelog ==
  /\ pc = "extracted" /\ entries # <<>>
  /\ LET saves(changelog) ==
           /\ consolidated' = changelog
           /\ file' = stringify(changelog)
           /\ result' = changelog
     IN saves(consolidateVersions(entries))
  /\ pc' = "returned"
  /\ UNCHANGED <<titleVars, otherVars, response, toolName, segVars, cmpVars, linkVars, entries>>

NextUpd ==
  \/ ScrapeThrows \/ ScrapeFails \/ ScrapeDeliversCursor \/ ScrapeDelivers
  \/ FenceLine \/ CodeLine \/ HeadingLine \/ BodyLine \/ LastBlock \/ FinalCleanup
  \/ NoEntries \/ SaveChangelog

SpecUpd == InitUpd /\ [][NextUpd]_vars

----------------------------------------------------------------------------
\* The Heading Classifier on a heading text.

\* heading texts: a version, titles with and without a release indicator,
\* section header words and texts too short to be a title
TitleCores == {"Release 9", "Hello World", "Unreleased", "Features", "1.2.0", "0.48.x", "Hi",
               "Hello", "Spring update", "What's New", "Thank you all", "Misc fixes today"}

\* each of them plain, in brackets, as a link, in brackets among white space,
\* and in brackets followed by a word
HeadingTextPool ==
  UNION {{t, "[" \o t \o "]", "[" \o t \o "](http://a/r)", "  [" \o t \o "] ", "[" \o t \o "] notes"} :
           t \in TitleCores}

InitTitle ==
  /\ pc = "classify"
  /\ headingText \in HeadingTextPool
  /\ potentialVersionOrTitle = NoLabel
  /\ IdleCmp /\ IdleSeg /\ IdleLink /\ IdleUpd /\ entries = <<>> /\ consolidated = <<>>
  /\ IdleOther

\* extractValidVersionOrTitle(headingText)
ClassifyHeading ==
  /\ pc = "classify"
  /\ potentialVersionOrTitle' = extractValidVersionOrTitle(headingText)
  /\ pc' = "classified"
  /\ UNCHANGED <<headingText, cmpVars, segVars, linkVars, updVars, entries, consolidated, otherVars>>

NextTitle == ClassifyHeading

SpecTitle == InitTitle /\ [][NextTitle]_vars

----------------------------------------------------------------------------
\* Block cleaning on a description.

\* the lines descriptions are made of: a fence, a separator line, a
\* boilerplate phrase, an indented line of code and a sentence
CleanLinePool == {Fence, "---", "What's Changed", "  x = 1", LongBody}

\* longest description (in lines) given to cleanDescriptionBlock
MaxDescLines == 3

InitClean ==
  /\ pc = "clean"
  /\ desc \in {join(ls, "\n") : ls \in SeqUpTo(CleanLinePool, MaxDescLines)}
  /\ cleaned = ""
  /\ IdleCmp /\ IdleSeg /\ IdleLink /\ IdleUpd /\ IdleTitle /\ IdleIde /\ IdleRelView
  /\ entries = <<>> /\ consolidated = <<>>

\* cleanDescriptionBlock(desc)
CleanBlock ==
  /\ pc = "clean"
  /\ cleaned' = cleanDescriptionBlock(desc)
  /\ pc' = "cleaned"
  /\ UNCHANGED <<desc, cmpVars, segVars, linkVars, updVars, titleVars, entries, consolidated, ideVars, relVars, viewVars>>

NextClean == CleanBlock

SpecClean == InitClean /\ [][NextClean]_vars

----------------------------------------------------------------------------
\* The dated "what's new" segmenter over a document.

\* the lines of the documents: version headings at two levels, headings
\* that are no version at three levels, a sentence and a line with a link;
\* or one heading of each of the other version formats
IdeLinePool == {"## v1.77", "### v1.78", "# Notes", "## Other notes", "### Details here",
                LongBody, "See http://b/docs"}
IdeHeadingPool == {"## What's New in IntelliJ IDEA 2023.1", "# March 2023 (version 1.77)",
                   "## Version 2023.1", "## Release 1.2.3", "  Fixed it  "}

\* the version each line of the documents holds
ideVersionTable == [line \in IdeLinePool \cup IdeHeadingPool |-> ideVersionMatch(trim(line))]

InitIde ==
  /\ pc = "ide"
  /\ lines \in SeqUpTo(IdeLinePool, MaxLines) \cup SeqUpTo(IdeHeadingPool, MaxLines)
  /\ lineNo = 1 /\ entries = <<>>
  /\ currentVersion = NoLabel /\ contentBuffer = <<>> /\ sectionLevel = 0
  /\ currentBlock = NoBlock /\ inCodeBlock = FALSE /\ blocks = <<>> /\ consolidated = <<>>
  /\ IdleCmp /\ IdleLink /\ IdleUpd /\ IdleTitle /\ IdleClean /\ IdleRelView

\* a version header saves the open block and starts a new one
IdeVersionHeader ==
  /\ pc = "ide" /\ lineNo <= Len(lines)
  /\ ideVersionTable[lines[lineNo]] # ""
  /\ entries' = IF currentVersion # NoLabel /\ Len(contentBuffer) > 0
                THEN saveIdeBlock(entries, currentVersion, contentBuffer) ELSE entries
  /\ currentVersion' = ideVersionTable[lines[lineNo]]
  /\ contentBuffer' = <<>>
  /\ sectionLevel' = RunLen(trim(lines[lineNo]), 1, "#")
  /\ lineNo' = lineNo + 1
  /\ UNCHANGED <<pc, lines, currentBlock, inCodeBlock, blocks, consolidated,
                 cmpVars, linkVars, updVars, titleVars, cleanVars, relVars, viewVars>>

\* a heading at the same or a shallower level saves the open block and ends it
IdeSectionEnd ==
  /\ pc = "ide" /\ lineNo <= Len(lines)
  /\ ideVersionTable[lines[lineNo]] = "" /\ currentVersion # NoLabel
  /\ endsSection(trim(lines[lineNo]), sectionLevel)
  /\ entries' = saveIdeBlock(entries, currentVersion, contentBuffer)
  /\ currentVersion' = NoLabel
  /\ contentBuffer' = <<>>
  /\ lineNo' = lineNo + 1
  /\ UNCHANGED <<pc, lines, sectionLevel, currentBlock, inCodeBlock, blocks, consolidated,
                 cmpVars, linkVars, updVars, titleVars, cleanVars, relVars, viewVars>>

\* any other line of an open block goes to the content buffer
IdeContentLine ==
  /\ pc = "ide" /\ lineNo <= Len(lines)
  /\ ideVersionTable[lines[lineNo]] = "" /\ currentVersion # NoLabel
  /\ ~endsSection(trim(lines[lineNo]), sectionLevel)
  /\ contentBuffer' = Append(contentBuffer, trim(lines[lineNo]))
  /\ lineNo' = lineNo + 1
  /\ UNCHANGED <<pc, lines, entries, currentVersion, sectionLevel, currentBlock, inCodeBlock,
                 blocks, consolidated, cmpVars, linkVars, updVars, titleVars, cleanVars, relVars, viewVars>>

\* a line outside every block is passed over
IdeSkippedLine ==
  /\ pc = "ide" /\ lineNo <= Len(lines)
  /\ ideVersionTable[lines[lineNo]] = "" /\ currentVersion = NoLabel
  /\ lineNo' = lineNo + 1
  /\ UNCHANGED <<pc, lines, entries, ideVars, currentBlock, inCodeBlock, blocks, consolidated,
                 cmpVars, linkVars, updVars, titleVars, cleanVars, relVars, viewVars>>

\* "Don't forget to process the last version block", and return entries
IdeLastBlock ==
  /\ pc = "ide" /\ lineNo > Len(lines)
  /\ entries' = IF currentVersion # NoLabel /\ Len(contentBuffer) > 0
                THEN saveIdeBlock(entries, currentVersion, contentBuffer) ELSE entries
  /\ pc' = "ideDone"
  /\ UNCHANGED <<lines, lineNo, ideVars, currentBlock, inCodeBlock, blocks, consolidated,
                 cmpVars, linkVars, updVars, titleVars, cleanVars, relVars, viewVars>>

NextIde == IdeVersionHeader \/ IdeSectionEnd \/ IdeContentLine \/ IdeSkippedLine \/ IdeLastBlock

SpecIde == InitIde /\ [][NextIde]_vars

----------------------------------------------------------------------------
\* The GitHub releases segmenter over a document.

\* the lines of the documents: release headers with and without a suffix, a
\* heading that is no release, a sentence, a line with a release link, and a
\* header whose version stands on the next line
ReleaseLinePool == {"# v1.2.3", "## 1.3.0-beta.1 (latest)", "# Notes", LongBody,
                    "See https://github.com/o/r/releases/tag/v1", "#", "v2.0"}

\* longest document, in lines, given to extractGitHubReleases
MaxReleaseLines == 3

InitRel ==
  /\ pc = "releases"
  /\ releasesMarkdown \in {join(doc, "\n") : doc \in SeqUpTo(ReleaseLinePool, MaxReleaseLines)}
  /\ lastIndex = 0 /\ visited = <<>> /\ entries = <<>>
  /\ IdleSeg /\ IdleCmp /\ IdleLink /\ IdleUpd /\ IdleTitle /\ IdleClean /\ IdleIde /\ IdleView
  /\ consolidated = <<>>

\* one turn of the loop: a header is found, the next one is looked up,
\* lastIndex is reset and the entry is stored
ReleaseHeader ==
  /\ pc = "releases"
  /\ \E index \in {execReleaseHeader(releasesMarkdown, lastIndex)} :
       /\ index >= 0
       /\ lastIndex' = lastIndexAfter(index)
       /\ visited' = Append(visited, index)
       /\ entries' = releaseEntry(entries, releasesMarkdown, index)
  /\ UNCHANGED <<pc, releasesMarkdown, segVars, consolidated, cmpVars, linkVars, updVars,
                 titleVars, cleanVars, ideVars, viewVars>>

\* exec finds no header: lastIndex goes back to 0 and the loop ends
NoMoreReleases ==
  /\ pc = "releases"
  /\ execReleaseHeader(releasesMarkdown, lastIndex) < 0
  /\ lastIndex' = 0
  /\ pc' = "releasesDone"
  /\ UNCHANGED <<releasesMarkdown, visited, entries, segVars, consolidated, cmpVars, linkVars,
                 updVars, titleVars, cleanVars, ideVars, viewVars>>

NextRel == ReleaseHeader \/ NoMoreReleases

\* a turn of the loop as the control flow sees it: a header is visited, or
\* the loop is left. One of the two actions is enabled whenever pc is
\* "releases" (exec gives a match or null), and every step of them is such
\* a turn
LoopTurn ==
  /\ pc = "releases"
  /\ \/ pc' = "releasesDone" /\ visited' = visited
     \/ pc' = pc /\ \E index \in 0..Len(releasesMarkdown) : visited' = Append(visited, index)

\* the function keeps running: a turn that can be taken is taken
SpecRel == InitRel /\ [][NextRel]_vars /\ WF_<<pc, visited>>(LoopTurn)

----------------------------------------------------------------------------
\* The Get Latest view: the initial fetchLatest, Refresh, Next and Previous.
\* A call that awaits is a process of its own; its steps are the stretches of
\* code between two awaits.

\* most refreshChangelog calls in flight at once
MaxRefreshCalls == 2

\* the fetchLatest of useEffect, and the refreshChangelog calls
FetchCall == "fetchLatest"
RefreshCalls == {"refreshChangelog " \o ToString(k) : k \in 1..MaxRefreshCalls}

\* a call that is not running
NoCall == [at |-> "idle", allEntries |-> <<>>]

\* the changelog pages the scrape answers with: one with an Unreleased
\* section and a title, one with a version N.N.x and a title, one from which
\* nothing with a description is extracted
ViewPages ==
  {"## [Unreleased](http://cursor.com/changelog/u)\n" \o LongBody
     \o "\n## [Zen mode](http://cursor.com/changelog/zen)\n" \o LongBody,
   "0.48.x\n## [New Tab model](http://cursor.com/changelog/tab)\n" \o LongBody,
   "## [New Tab model](http://cursor.com/changelog/tab)\nWhat's Changed"}

ViewResponses ==
  {ThrowingResponse} \cup [kind : {"object"}, success : {TRUE}, markdown : {Str(p) : p \in ViewPages}]

\* the files at the start: none, and those an earlier update wrote
ViewFiles == {NoFile} \cup {updateChangelog(NoFile, r) : r \in ViewResponses}

InitView ==
  /\ pc = "view"
  /\ isLoading = TRUE /\ latestVersion = Null /\ needsUpdate = FALSE
  /\ allVersions = <<>> /\ currentVersionIndex = 0
  /\ calls = [c \in {FetchCall} \cup RefreshCalls |->
                IF c = FetchCall THEN [at |-> "loadChangelog", allEntries |-> <<>>] ELSE NoCall]
  /\ file \in ViewFiles /\ toolName = "Cursor"
  /\ response = NoResponse /\ result = <<>>
  /\ entries = <<>> /\ consolidated = <<>>
  /\ IdleSeg /\ IdleCmp /\ IdleLink /\ IdleTitle /\ IdleClean /\ IdleIde /\ IdleRel

\* what the view leaves alone
viewRest == <<pc, segVars, cmpVars, linkVars, titleVars, cleanVars, ideVars, relVars,
              entries, consolidated, response, result, toolName>>

\* fetchLatest: loadChangelog has answered
FetchLoaded ==
  /\ calls[FetchCall].at = "loadChangelog"
  /\ allVersions' = loadChangelog(file)
  /\ calls' = [calls EXCEPT ![FetchCall] = [at |-> "getLatestVersion", allEntries |-> loadChangelog(file)]]
  /\ UNCHANGED <<isLoading, latestVersion, needsUpdate, currentVersionIndex, file, viewRest>>

\* fetchLatest: getLatestVersion has answered with an entry
FetchFound ==
  /\ calls[FetchCall].at = "getLatestVersion"
  /\ \E latest \in {getLatestVersion(toolName, file)} :
       /\ latest # Null
       /\ latestVersion' = latest
       /\ \E index \in {findIndex(calls[FetchCall].allEntries, latest.version)} :
            currentVersionIndex' = IF index # -1 THEN index ELSE currentVersionIndex
  /\ needsUpdate' = FALSE
  /\ isLoading' = FALSE
  /\ calls' = [calls EXCEPT ![FetchCall] = [at |-> "returned", allEntries |-> <<>>]]
  /\ UNCHANGED <<allVersions, file, viewRest>>

\* fetchLatest: getLatestVersion has answered null, updateChangelog is called
FetchMissing ==
  /\ calls[FetchCall].at = "getLatestVersion"
  /\ getLatestVersion(toolName, file) = Null
  /\ needsUpdate' = TRUE
  /\ calls' = [calls EXCEPT ![FetchCall] = [at |-> "updateChangelog", allEntries |-> <<>>]]
  /\ UNCHANGED <<isLoading, latestVersion, allVersions, currentVersionIndex, file, viewRest>>

\* refreshChangelog is called: setIsLoading(true), then the toast is awaited
Refresh(c) ==
  /\ calls[c].at = "idle"
  /\ isLoading' = TRUE
  /\ calls' = [calls EXCEPT ![c] = [at |-> "showToast", allEntries |-> <<>>]]
  /\ UNCHANGED <<latestVersion, needsUpdate, allVersions, currentVersionIndex, file, viewRest>>

\* refreshChangelog: the toast is shown, updateChangelog is called
RefreshStarts(c) ==
  /\ calls[c].at = "showToast"
  /\ calls' = [calls EXCEPT ![c] = [at |-> "updateChangelog", allEntries |-> <<>>]]
  /\ UNCHANGED <<isLoading, latestVersion, needsUpdate, allVersions, currentVersionIndex, file, viewRest>>

\* updateChangelog of call c has scraped, written the file and returned;
\* loadChangelog is called
Updated(c) ==
  /\ calls[c].at = "updateChangelog"
  /\ \E anyResponse \in ViewResponses : file' = updateChangelog(file, anyResponse)
  /\ calls' = [calls EXCEPT ![c] = [at |-> "loadUpdated", allEntries |-> <<>>]]
  /\ UNCHANGED <<isLoading, latestVersion, needsUpdate, allVersions, currentVersionIndex, viewRest>>

\* loadChangelog has answered call c after its update; getLatestVersion is called
Reloaded(c) ==
  /\ calls[c].at = "loadUpdated"
  /\ allVersions' = loadChangelog(file)
  /\ calls' = [calls EXCEPT ![c] = [at |-> "getUpdatedLatest", allEntries |-> <<>>]]
  /\ UNCHANGED <<isLoading, latestVersion, needsUpdate, currentVersionIndex, file, viewRest>>

\* getLatestVersion has answered call c after its update: the entry is
\* shown, the index is reset and the finally block clears isLoading
Shown(c) ==
  /\ calls[c].at = "getUpdatedLatest"
  /\ latestVersion' = getLatestVersion(toolName, file)
  /\ currentVersionIndex' = 0
  /\ isLoading' = FALSE
  /\ calls' = [calls EXCEPT ![c] = IF c = FetchCall THEN [at |-> "returned", allEntries |-> <<>>]
                                   ELSE NoCall]
  /\ UNCHANGED <<needsUpdate, allVersions, file, viewRest>>

goToNextVersion ==
  /\ currentVersionIndex > 0
  /\ currentVersionIndex' = currentVersionIndex - 1
  /\ latestVersion' = elementAt(allVersions, currentVersionIndex - 1)
  /\ UNCHANGED <<isLoading, needsUpdate, allVersions, calls, file, viewRest>>

goToPreviousVersion ==
  /\ currentVersionIndex < Len(allVersions) - 1
  /\ currentVersionIndex' = currentVersionIndex + 1
  /\ latestVersion' = elementAt(allVersions, currentVersionIndex + 1)
  /\ UNCHANGED <<isLoading, needsUpdate, allVersions, calls, file, viewRest>>

\* the update, the reload and the display after it, in fetchLatest
FetchUpdated == Updated(FetchCall)
FetchReloaded == Reloaded(FetchCall)
FetchShown == Shown(FetchCall)

\* the same in a refreshChangelog call
RefreshUpdated == \E c \in RefreshCalls : Updated(c)
RefreshReloaded == \E c \in RefreshCalls : Reloaded(c)
RefreshShown == \E c \in RefreshCalls : Shown(c)
RefreshCalled == \E c \in RefreshCalls : Refresh(c)
RefreshToastShown == \E c \in RefreshCalls : RefreshStarts(c)

NextView ==
  \/ FetchLoaded \/ FetchFound \/ FetchMissing \/ FetchUpdated \/ FetchReloaded \/ FetchShown
  \/ RefreshCalled \/ RefreshToastShown \/ RefreshUpdated \/ RefreshReloaded \/ RefreshShown
  \/ goToNextVersion \/ goToPreviousVersion

SpecView == InitView /\ [][NextView]_vars

----------------------------------------------------------------------------
\* Claims about the comparator.

\* C2: compareVersions is antisymmetric and zero on equal labels: for every
\* pair of labels a, b, compareVersions(a, b) = -compareVersions(b, a), and
\* compareVersions(a, a) = 0.
C2_Antisymmetric ==
  pc = "compared" => (cmp.ab = -cmp.ba /\ cmp.aa = 0)

\* two labels that reach compareVersionParts in different comparison modes
C2_Witness ==
  /\ pc = "compared"
  /\ la = "v2024.9.1" /\ lb = "2024.5"
  /\ cmp.ab = -1 /\ cmp.ba = 1

\* C3: compareVersions is transitive: if compareVersions(a, b) > 0 and
\* compareVersions(b, c) > 0 then compareVersions(a, c) > 0.
C3_Transitive ==
  pc = "compared" => ((cmp.ab > 0 /\ cmp.bc > 0) => cmp.ac > 0)

\* the label is a plain numeric version: three numbers with dots between,
\* the first of fewer than four digits (four digits make the shape of a date)
PlainNumeric(label) ==
  /\ Len(split(label, ".")) = 3
  /\ \A k \in 1..3 : AllDigits(split(label, ".")[k])
  /\ Len(split(label, ".")[1]) < 4

\* a is the larger of two plain numeric versions: larger, as an integer, in
\* the first component where they differ
NumericGreater(a, b) ==
  LET pa == [k \in 1..3 |-> parseInt(split(a, ".")[k])]
      pb == [k \in 1..3 |-> parseInt(split(b, ".")[k])]
  IN \E k \in 1..3 : pa[k] > pb[k] /\ \A j \in 1..(k - 1) : pa[j] = pb[j]

\* C17: numeric component comparison: plain numeric versions are compared by
\* the first component in which they differ, as integers: for a larger than b
\* and b larger than c, compareVersions(a, b) and compareVersions(b, c) have
\* the same sign (as for "1.10.0", "1.9.0" and "1.2.0", "1.1.0"), and neither
\* is zero (as for "1.2.4", "1.2.3").
C17_NumericComponents ==
  (/\ pc = "compared"
   /\ PlainNumeric(la) /\ PlainNumeric(lb) /\ PlainNumeric(lc)
   /\ NumericGreater(la, lb) /\ NumericGreater(lb, lc))
  => (cmp.ab # 0 /\ cmp.bc # 0 /\ Sign(cmp.ab) = Sign(cmp.bc))

\* ['alpha', 'beta', 'rc', 'preview', 'pre'] as the claim ranks them
PreReleaseRank(suffix) ==
  CASE suffix = "alpha" -> 1 [] suffix = "beta" -> 2 [] suffix = "rc" -> 3
    [] suffix = "preview" -> 4 [] suffix = "pre" -> 5 [] OTHER -> 0

\* the label is a plain numeric version and a pre-release suffix after "-"
IsPreRelease(label) ==
  /\ Len(split(label, "-")) = 2
  /\ PlainNumeric(split(label, "-")[1])
  /\ PreReleaseRank(split(label, "-")[2]) > 0

\* C18: pre-release suffix ranking: a label with a pre-release suffix
\* compared with the same version without suffix ("1.2.3-beta", "1.2.3")
\* gives a non-zero result that ranks the pre-release label first, and two
\* pre-release labels of one version are ranked by alpha, beta, rc, preview,
\* pre.
C18_PreReleaseRanked ==
  pc = "compared" /\ IsPreRelease(la) =>
    /\ lb = split(la, "-")[1] => (cmp.ab < 0 /\ cmp.ba > 0)
    /\ (/\ IsPreRelease(lb) /\ split(lb, "-")[1] = split(la, "-")[1]
        /\ PreReleaseRank(split(la, "-")[2]) < PreReleaseRank(split(lb, "-")[2]))
       => cmp.ab < 0

----------------------------------------------------------------------------
\* Claims about the Consolidator.

\* the extraction has returned
Extracted == pc \in {"extracted", "done"}

\* the labels of a list of entries, in order
Labels(list) == [k \in 1..Len(list) |-> list[k].version]

\* C1: the final order is newest-first for numeric versions: when the
\* Generic Segmenter and then the Consolidator have run on a document whose
\* accepted headings are 1.2.0 and 1.1.0, the entry of 1.2.0 comes before the
\* entry of 1.1.0 in the final list.
C1_NewestFirst ==
  pc = "done" =>
    \A j, k \in 1..Len(consolidated) :
      (consolidated[j].version = "1.2.0" /\ consolidated[k].version = "1.1.0") => j < k

\* C4: a wildcard label (N.N.x) sorts first: in the list consolidateVersions
\* returns, every entry with a wildcard label precedes every entry without.
C4_WildcardFirst ==
  pc = "done" =>
    \A j, k \in 1..Len(consolidated) :
      (IsCursorVersion(consolidated[j].version) /\ ~IsCursorVersion(consolidated[k].version))
        => j < k

\* the map holds 1.0.0 before 0.48.x and the list returned has them swapped
C4_Witness ==
  /\ pc = "done"
  /\ Labels(entries) = <<"1.0.0", "0.48.x">>
  /\ Labels(consolidated) = <<"0.48.x", "1.0.0">>

\* C5: a date label sorts before any label that is neither a date nor a
\* wildcard: in the list consolidateVersions returns, every entry with a date
\* label (YYYY-MM-DD, YYYY.MM.DD) precedes every such entry.
C5_DateFirst ==
  pc = "done" =>
    \A j, k \in 1..Len(consolidated) :
      (/\ IsDateShape(consolidated[j].version)
       /\ ~IsDateShape(consolidated[k].version)
       /\ ~IsCursorVersion(consolidated[k].version))
        => j < k

\* the map holds the title before the date and the list returned has them swapped
C5_Witness ==
  /\ pc = "done"
  /\ Labels(entries) = <<"New Feature Announcement", "2024-01-01">>
  /\ Labels(consolidated) = <<"2024-01-01", "New Feature Announcement">>

----------------------------------------------------------------------------
\* Claims about the Generic Segmenter.

\* the closed blocks that classified to a label
BlocksOf(version) == {k \in 1..Len(blocks) : blocks[k].version = version}

\* C6: deduplication by longest description: each label occurs at most once
\* in the map, and the description stored for a label is the cleaned
\* description of one of the blocks closed for it, and no block closed for it
\* has a longer one.
C6_LongestWins ==
  /\ \A j, k \in 1..Len(entries) : entries[j].version = entries[k].version => j = k
  /\ \A k \in 1..Len(entries) :
       /\ \E b \in BlocksOf(entries[k].version) : blocks[b].description = entries[k].description
       /\ \A b \in BlocksOf(entries[k].version) :
            Len(blocks[b].description) <= Len(entries[k].description)

\* two blocks of one label, the longer one first, and the longer one is returned
C6_Witness ==
  /\ pc = "extracted"
  /\ lines = <<"## 1.2.0", LongBody, "## 1.2.0", LinkBody>>
  /\ Len(blocks) = 2
  /\ Len(blocks[2].description) > EmptyBlockLength
  /\ Len(entries) = 1 /\ entries[1].description = LongBody

\* C7: link retention on merge: when exactly two blocks classified to a
\* label, the one with the longer description has no detail link and the
\* other has one, the entry returned for the label carries the other
\* block's link, whichever of the two came first.
C7_LinkRetained ==
  Extracted =>
    \A k \in 1..Len(entries) : \A p, q \in BlocksOf(entries[k].version) :
      (/\ BlocksOf(entries[k].version) = {p, q}
       /\ Len(blocks[p].description) > Len(blocks[q].description)
       /\ ~Truthy(blocks[p].detailLink)
       /\ Truthy(blocks[q].detailLink))
        => entries[k].detailLink = blocks[q].detailLink

\* C8: minimum description length: every entry extractChangelogBlocks
\* returns, and every entry of the final list, has a trimmed description of
\* at least 15 characters.
C8_MinimumLength ==
  /\ Extracted => \A k \in 1..Len(entries) :
                    Len(trim(entries[k].description)) >= MinDescriptionLength
  /\ pc = "done" => \A k \in 1..Len(consolidated) :
                      Len(trim(consolidated[k].description)) >= MinDescriptionLength

\* a heading with a one-word body and a heading with a 14-character body:
\* both blocks were closed and neither is returned
C8_Witness ==
  /\ pc = "extracted"
  /\ lines = <<"## 1.2.0", ShortBody, "## 1.1.0", LinkBody>>
  /\ Len(blocks) = 2 /\ blocks[2].description = LinkBody
  /\ entries = <<>>

\* C9: no restated-label entry survives: no entry extractChangelogBlocks
\* returns has a description that is its label, or "version " followed by
\* its label, letter case apart.
C9_NoRestatedLabel ==
  Extracted =>
    \A k \in 1..Len(entries) :
      toLowerCase(trim(entries[k].description))
        \notin {toLowerCase(entries[k].version), toLowerCase("version " \o entries[k].version)}

----------------------------------------------------------------------------
\* Claims about the Link Extractor.

\* the urls of the markdown links [text](url) of s, from position from on
RECURSIVE markdownUrls(_, _)
markdownUrls(s, from) ==
  LET m == mdLinkFrom(s, from)
  IN IF m.found THEN {m.url} \cup markdownUrls(s, m.next) ELSE {}

\* C10: the heading link has top priority: when the heading line holds a
\* markdown link whose url has no image extension, extractDetailLink returns
\* the url of such a link, whatever the content block holds.
C10_HeadingLinkFirst ==
  pc = "linked" =>
    LET urls == {u \in markdownUrls(heading, 1) : ~hasImageExtension(u)}
    IN urls # {} => link \in {Str(u) : u \in urls}

\* the text of a boilerplate link: See more, Read more, Learn more
IsMoreText(text) == toLowerCase(text) \in {"see more", "read more", "learn more"}

\* the urls of the boilerplate links of s, from position from on
RECURSIVE moreUrls(_, _)
moreUrls(s, from) ==
  LET m == mdLinkFrom(s, from)
  IN IF ~m.found THEN {}
     ELSE (IF IsMoreText(m.text) THEN {m.url} ELSE {}) \cup moreUrls(s, m.next)

\* C20: link tier 3 precedes tier 4: when the heading has no link and the
\* content block has no explicit call-out link, but holds a boilerplate link
\* [See more](u) after an ordinary markdown link [text](w),
\* extractDetailLink returns u, the url of a boilerplate link.
C20_MoreLinkBeforeGeneric ==
  (/\ pc = "linked"
   /\ ~mdLinkFrom(heading, 1).found
   /\ ~Truthy(explicitLink(body))
   /\ mdLinkFrom(body, 1).found /\ ~IsMoreText(mdLinkFrom(body, 1).text)
   /\ moreUrls(body, 1) # {})
  => link \in {Str(u) : u \in moreUrls(body, 1)}

----------------------------------------------------------------------------
\* Claims about the scan of the lines.

\* line k of the document is a fence line
IsFenceLine(k) == startsWith(trim(lines[k]), Fence)

\* line k lies between an opening fence line and its closing fence line:
\* it is no fence line, the fence lines before it are odd in number, and a
\* fence line follows it
BetweenFences(k) ==
  /\ k \in 1..Len(lines) /\ ~IsFenceLine(k)
  /\ Cardinality({j \in 1..(k - 1) : IsFenceLine(j)}) % 2 = 1
  /\ \E j \in (k + 1)..Len(lines) : IsFenceLine(j)

\* C15: inside a code fence no heading is classified: the step over a line
\* between an opening fence line and its closing fence line closes no block
\* (the entries are as they were), opens none (the open block keeps its
\* label and heading line), and appends the line as it is to the open block
\* if there is one.
C15_NoHeadingInFence ==
  [][(pc = "scan" /\ BetweenFences(lineNo) /\ lineNo' = lineNo + 1) =>
       /\ entries' = entries /\ blocks' = blocks
       /\ currentBlock'.version = currentBlock.version
       /\ currentBlock'.headingLine = currentBlock.headingLine
       /\ currentBlock'.contentLines =
            IF currentBlock.version # NoLabel
            THEN Append(currentBlock.contentLines, lines[lineNo])
            ELSE currentBlock.contentLines]_vars

\* a line of the form of an accepted heading was met between two fence
\* lines and is the last content line of the open block
C15_Witness ==
  /\ pc = "scan" /\ lineNo >= 2 /\ BetweenFences(lineNo - 1)
  /\ headingMatch(trim(lines[lineNo - 1]))[1] > 0
  /\ extractValidVersionOrTitle(headingMatch(trim(lines[lineNo - 1]))[2]) # NoLabel
  /\ currentBlock.version # NoLabel
  /\ currentBlock.contentLines # <<>>
  /\ currentBlock.contentLines[Len(currentBlock.contentLines)] = lines[lineNo - 1]

\* line k is an accepted heading: outside every fence, of the form of a
\* heading, and classified to a label
AcceptedHeading(k) ==
  /\ k \in 1..Len(lines) /\ ~IsFenceLine(k)
  /\ Cardinality({j \in 1..(k - 1) : IsFenceLine(j)}) % 2 = 0
  /\ lineTable[lines[k]].version # NoLabel

\* the line after the block of the accepted heading h: the next accepted
\* heading, or the end of the input
BlockEnd(h) ==
  LET later == {k \in (h + 1)..Len(lines) : AcceptedHeading(k)}
  IN IF later = {} THEN Len(lines) + 1 ELSE CHOOSE k \in later : \A j \in later : k <= j

\* C16: block isolation: once the lines are scanned, the description of
\* every entry with label L is the cleaned text of the lines strictly between
\* one accepted heading classified as L and the next accepted heading (or the
\* end of the input): no line before the first accepted heading and no line
\* of another block is part of it.
C16_BlockIsolation ==
  pc \in {"cleanup", "extracted", "done"} =>
    \A e \in 1..Len(entries) :
      \E h \in 1..Len(lines) :
        /\ AcceptedHeading(h)
        /\ lineTable[lines[h]].version = entries[e].version
        /\ entries[e].description =
             cleanDescriptionBlock(join(SubSeq(lines, h + 1, BlockEnd(h) - 1), "\n"))

\* a line before the first accepted heading, a block of one line, and the
\* accepted heading that closes it: the entry is made of the one line
C16_Witness ==
  /\ pc = "extracted" /\ Len(lines) = 4
  /\ ~AcceptedHeading(1) /\ trim(lines[1]) # ""
  /\ AcceptedHeading(2) /\ ~AcceptedHeading(3) /\ AcceptedHeading(4)
  /\ Len(entries) = 1 /\ entries[1].description = lines[3]

----------------------------------------------------------------------------
\* Claims about the final list.

\* C11: in every entry of the list consolidateVersions returns, detailLink
\* is present: a string when a link was found and null when none was, never
\* undefined.
C11_DetailLinkNeverUndefined ==
  pc = "done" =>
    \A k \in 1..Len(consolidated) : consolidated[k].detailLink.kind \in {"string", "null"}

\* C12: consolidateVersions is idempotent: the list it returned, taken as a
\* map with its properties in list order and given to consolidateVersions
\* again, comes back as the same sequence of entries.
C12_Idempotent ==
  pc = "done" => consolidateVersions(consolidated) = consolidated

\* the label is a descriptive title: it has no numeric-version, date or
\* wildcard shape and does not start with a number
IsTitle(label) ==
  /\ ~looksLikeVersion(label) /\ ~IsDateShape(label) /\ ~IsCursorVersion(label)
  /\ ~IsDigit(Ch(label, 1))

\* C19: descriptive titles are ordered reverse-lexicographically: in the
\* list consolidateVersions returns, of two entries whose labels are titles
\* the lexicographically later label comes first.
C19_TitlesReversed ==
  pc = "done" =>
    \A j, k \in 1..Len(consolidated) :
      (/\ IsTitle(consolidated[j].version) /\ IsTitle(consolidated[k].version)
       /\ localeCompare(consolidated[j].version, consolidated[k].version) > 0)
        => j < k

\* a and b are three-number versions that differ by one in the last number
\* only ("1.2.3" and "1.2.4")
ConsecutiveVersions(a, b) ==
  LET pa == split(a, ".")
      pb == split(b, ".")
  IN /\ Len(pa) = 3 /\ Len(pb) = 3
     /\ \A k \in 1..3 : AllDigits(pa[k]) /\ AllDigits(pb[k])
     /\ pa[1] = pb[1] /\ pa[2] = pb[2]
     /\ parseInt(pb[3]) = parseInt(pa[3]) + 1

\* C14: version range consolidation: two consecutive version numbers with
\* the same description do not come out of consolidateVersions as one entry
\* per version.
C14_RangeGrouped ==
  pc = "done" =>
    \A j, k \in 1..Len(entries) :
      /\ ConsecutiveVersions(entries[j].version, entries[k].version)
      /\ entries[j].description = entries[k].description
      /\ hasMeaningfulDescription(entries[j])
      => ~(\E x, y \in 1..Len(consolidated) :
             /\ consolidated[x].version = entries[j].version
             /\ consolidated[y].version = entries[k].version)

----------------------------------------------------------------------------
\* Claims about updateChangelog.

\* the update did not get entries: the scrape threw, failed or gave no
\* usable markdown, or the segmenter extracted nothing
FailedUpdate ==
  \/ response.kind = "throws"
  \/ ~response.success
  \/ ~Truthy(markdownContent(response))
  \/ entries = <<>>

\* the entries the file holds, the empty list when it holds none
StoredEntries == IF file.state = "json" THEN parse(file.data) ELSE <<>>

\* C13: fallback on failed or empty extraction: when the scrape fails or
\* throws, or the segmenter extracts no entry, updateChangelog returns the
\* stored entries as loadChangelog returns them (every stored entry once, in
\* loadChangelog's order) and the stored file is as it was: no step of a
\* failed update changes the file.
C13_Fallback ==
  /\ [](pc = "returned" /\ FailedUpdate =>
          /\ result = loadChangelog(file)
          /\ Len(result) = Len(StoredEntries)
          /\ \A k \in 1..Len(StoredEntries) : \E j \in 1..Len(result) : result[j] = StoredEntries[k])
  /\ [][(pc' = "returned" /\ FailedUpdate') => file' = file]_vars

\* the markdown was taken, no entry came out of it, and the two stored
\* entries are returned
C13_Witness ==
  /\ pc = "returned"
  /\ response.success /\ Truthy(markdownContent(response)) /\ entries = <<>>
  /\ file.state = "json" /\ Len(result) = 2

----------------------------------------------------------------------------
\* Claims about image links.

\* the url ends in an image file extension, or is on an image-hosting domain
IsImageUrl(url) ==
  \/ \E ext \in {".png", ".jpg", ".jpeg", ".gif", ".svg", ".webp"} : endsWith(toLowerCase(url), ext)
  \/ includes(url, "imgur.com") \/ includes(url, "imageshack.us")

\* C21: image links are never chosen: the url extractDetailLink returns for a
\* heading line and a body never ends in an image file extension (png, jpg,
\* jpeg, gif, svg, webp) and is never on an image-hosting domain.
C21_NoImageLink ==
  (pc = "linked" /\ link.kind = "string") => ~IsImageUrl(link.value)

----------------------------------------------------------------------------
\* Claims about the Heading Classifier.

\* the text is fully wrapped in square brackets
IsBracketed(t) == Len(t) >= 2 /\ Ch(t, 1) = "[" /\ Ch(t, Len(t)) = "]"

\* the text without its first and last character
InnerText(t) == SubSeq(t, 2, Len(t) - 1)

\* C22: a heading text that is fully wrapped in square brackets and accepted
\* as a descriptive title is returned as its inner text, without the brackets.
C22_BracketsUnwrapped ==
  (/\ pc = "classified"
   /\ IsBracketed(trim(headingText))
   /\ potentialVersionOrTitle # NoLabel)
    => potentialVersionOrTitle = InnerText(trim(headingText))

\* the text holds a digit or a release-indicating word
HasIndicator(t) ==
  \/ \E k \in 1..Len(t) : Ch(t, k) \in {"0", "1", "2", "3", "4", "5", "6", "7", "8", "9"}
  \/ \E w \in {"release", "update", "version", "build", "patch", "edition", "changelog",
               "announcement", "month", "year", "week", "day"} : includes(toLowerCase(t), w)

\* the text is a link-wrapped heading, [title](url)
IsLinkWrapped(t) == Ch(t, 1) = "[" /\ Ch(t, Len(t)) = ")" /\ includes(t, "](")

\* C23: a heading text that is accepted, and is neither a link-wrapped
\* heading nor the word "Unreleased", has a length in [5,150] or is a version,
\* and holds at least one digit or one release-indicating word.
C23_IndicatorRequired ==
  (/\ pc = "classified"
   /\ potentialVersionOrTitle # NoLabel
   /\ ~IsLinkWrapped(trim(headingText))
   /\ toLowerCase(trim(headingText)) # "unreleased")
    => /\ HasIndicator(trim(headingText))
       /\ Len(trim(headingText)) >= 5 /\ Len(trim(headingText)) <= 150

----------------------------------------------------------------------------
\* Claims about block cleaning.

\* the fenced regions of a list of lines: the positions of each fence opener
\* and of its closer
FencedRegions(ls) ==
  {r \in (1..Len(ls)) \X (1..Len(ls)) :
     /\ r[1] < r[2] /\ ls[r[1]] = Fence /\ ls[r[2]] = Fence
     /\ \A k \in (r[1] + 1)..(r[2] - 1) : ls[k] # Fence
     /\ Cardinality({k \in 1..(r[1] - 1) : ls[k] = Fence}) % 2 = 0}

\* the lines ls[r[1]]..ls[r[2]] occur in out, one after the other
OccursIn(ls, r, out) ==
  \E o \in 0..Len(out) :
    \A k \in r[1]..r[2] : o + k - r[1] + 1 <= Len(out) /\ out[o + k - r[1] + 1] = ls[k]

\* C24: code fences are untouched by block cleaning: the lines between a fence
\* opener and its closer appear in the result of cleanDescriptionBlock exactly
\* as in the input.
C24_FencesUntouched ==
  pc = "cleaned" =>
    \A r \in FencedRegions(split(desc, "\n")) :
      OccursIn(split(desc, "\n"), r, split(cleaned, "\n"))

----------------------------------------------------------------------------
\* Claims about the dated "what's new" segmenter.

\* line k of the document is a version heading
IsIdeVersionHeading(k) == ideVersionTable[lines[k]] # ""

\* the heading level of line k: its leading # characters, 0 when it has none
IdeLevel(k) == RunLen(trim(lines[k]), 1, "#")

\* the first line after version heading h that is a version heading or a
\* heading at the level of h or shallower; one past the last line when none
IdeBlockEnd(h, last) ==
  LET ends == {j \in (h + 1)..last : IsIdeVersionHeading(j) \/ (IdeLevel(j) >= 1 /\ IdeLevel(j) <= IdeLevel(h))}
  IN IF ends = {} THEN last + 1 ELSE CHOOSE j \in ends : \A k \in ends : j <= k

\* the lines h+1 .. e-1, trimmed
IdeBody(h, e) == [k \in 1..(e - 1 - h) |-> trim(lines[h + k])]

\* C25: section nesting in extractIDEChangelog: once a version heading at
\* level L has opened a block, the lines up to the next version heading or
\* the next heading at level <= L are the block's body (deeper headings
\* included); from a closing heading at level <= L on, no block is open and the
\* lines up to the next version heading belong to no entry.
C25_SectionNesting ==
  /\ pc = "ide" =>
       LET seen == {h \in 1..(lineNo - 1) : IsIdeVersionHeading(h)}
           open(h) == /\ currentVersion = ideVersionTable[lines[h]]
                      /\ sectionLevel = IdeLevel(h)
                      /\ contentBuffer = IdeBody(h, lineNo)
           none == currentVersion = NoLabel /\ contentBuffer = <<>>
           latest(h) == IF IdeBlockEnd(h, lineNo - 1) <= lineNo - 1 THEN none ELSE open(h)
       IN IF seen = {} THEN none ELSE latest(CHOOSE h \in seen : \A k \in seen : h >= k)
  /\ pc = "ideDone" =>
       \A n \in 1..Len(entries) :
         \E h \in 1..Len(lines) :
           /\ IsIdeVersionHeading(h) /\ entries[n].version = ideVersionTable[lines[h]]
           /\ entries[n].description =
                cleanDescriptionBlock(join(IdeBody(h, IdeBlockEnd(h, Len(lines))), "\n"))

\* a block with a deeper heading in its body was closed by a heading at its
\* own level, and the line after that heading is in no entry
C25_Witness ==
  /\ pc = "ideDone"
  /\ lines = <<"## v1.77", "### Details here", "## Other notes", LongBody>>
  /\ Len(entries) = 1 /\ entries[1].version = "1.77"
  /\ entries[1].description = "### Details here"

----------------------------------------------------------------------------
\* Claims about the filter of the Consolidator.

\* the properties of the map whose description is present and at least 10
\* characters long
KeptProperties == {entries[k] : k \in {k \in 1..Len(entries) : Len(entries[k].description) >= 10}}

----------------------------------------------------------------------------
\* Claims about the stored list.

\* C27: an update never wipes the store: when the stored file holds a
\* non-empty list of entries, no step of updateChangelog replaces it by an
\* empty list.
C27_StoreNeverWiped ==
  [][(file.state = "json" /\ Len(file.data) > 0) => (file'.state = "json" /\ Len(file'.data) > 0)]_vars

----------------------------------------------------------------------------
\* Claims about the GitHub releases segmenter.

\* the indexes (counted from 0) at which a release header starts
ReleaseHeaderIndexes ==
  {p - 1 : p \in {p \in 1..Len(releasesMarkdown) : releaseHeaderAt(releasesMarkdown, p).next > 0}}

\* C28: extractGitHubReleases terminates: the index of the matched header
\* strictly increases from one turn of the loop to the next, the loop ends,
\* and when it has ended every release header was visited exactly once.
C28_Terminates ==
  /\ [](\A k \in 1..(Len(visited) - 1) : visited[k] < visited[k + 1])
  /\ <>(pc = "releasesDone")
  /\ [](pc = "releasesDone" =>
          /\ {visited[k] : k \in 1..Len(visited)} = ReleaseHeaderIndexes
          /\ Len(visited) = Cardinality(ReleaseHeaderIndexes))

\* three release headers were visited, the first and the last left by the
\* continue, and the loop has ended
C28_Witness ==
  /\ pc = "releasesDone"
  /\ releasesMarkdown = "# v1.2.3\n## 1.3.0-beta.1 (latest)\n# v1.2.3"
  /\ visited = <<0, 9, 34>>
  /\ Len(entries) = 1

----------------------------------------------------------------------------
\* Claims about the Get Latest view.

\* the calls in flight
InFlight == {c \in DOMAIN calls : calls[c].at \notin {"idle", "returned"}}

\* "displayVersion = latestVersion || currentVersion"
Displayed ==
  IF latestVersion # Null THEN latestVersion
  ELSE IF currentVersionIndex < Len(allVersions) THEN allVersions[currentVersionIndex + 1] ELSE Null

\* C29: when the initial load and every action have completed and the entry
\* list is non-empty, currentVersionIndex is an index of allVersions and the
\* entry displayed is allVersions[currentVersionIndex].
C29_ViewConsistent ==
  (InFlight = {} /\ allVersions # <<>>) =>
    /\ currentVersionIndex >= 0 /\ currentVersionIndex < Len(allVersions)
    /\ Displayed = allVersions[currentVersionIndex + 1]

\* C30: whenever isLoading is false no fetchLatest or refreshChangelog call
\* is in flight, and at most one call is inside updateChangelog at a time.
C30_LoadingFlag ==
  /\ ~isLoading => InFlight = {}
  /\ Cardinality({c \in DOMAIN calls : calls[c].at = "updateChangelog"}) <= 1

====
